---- MODULE Spec2Model ----
(***************************************************************************)
(* Verification model of the solar layout editor (DesignEditor.tsx and    *)
(* FieldSegmentPanel): the polygon draw tool with snap-to-close, the      *)
(* create / update / delete calls to the segment store, the debounced     *)
(* auto-save, shape editing, the derived map layers and the module        *)
(* layout packer.                                                         *)
(*                                                                         *)
(* The editor is single threaded: every event handler runs to its first   *)
(* await, the React effects its state changes trigger run with it, and    *)
(* every continuation of an awaited store call is a step of its own.      *)
(* Handlers are written as functions from an editor state (a record with  *)
(* one field per variable) to an editor state, so that a handler can call *)
(* another one (endDraw fires drawend, a cleanup calls endDraw) the way   *)
(* the code does; Commit assigns the record to the variables.             *)
(***************************************************************************)
EXTENDS Integers, Sequences, FiniteSets, TLC

VARIABLES
  \* React state of DesignEditor
  activeTool, fieldSegments, selectedSegmentId, isEditingShape, savingStatus,
  isSavingNewSegment, isCtrlDown, isLoading, moduleDims,
  \* refs and map-library objects
  toolEnabled, moveAttached, cur, autoClosing, closingSnapActive, drawingId,
  timer, segmentLayer, labelLayer, outlineLayer, wallsLayer, shadowsLayer,
  setbackLayer, modulesLayer,
  \* environment: pointer, store, calls in flight, pending timeouts
  mouse, store, nextId, drawSeq, creates, updates, deletes, dimsCalls,
  savedTimers, sunColumns, userOps,
  \* history variables used to state the properties
  ev, run, burst, unsaved, dragRing,
  \* the module layout packer (a pure derivation, checked on its own inputs)
  lay,
  \* the shadow effect (a pure derivation, checked on its own inputs)
  shadow,
  \* one call of ensureModuleDims (checked on its own inputs)
  lookup,
  \* the walls and labels drawn from a segment list (checked on its own
  \* inputs)
  scene

edVars == << activeTool, fieldSegments, selectedSegmentId, isEditingShape,
             savingStatus, isSavingNewSegment, isCtrlDown, isLoading, moduleDims,
             toolEnabled, moveAttached, cur, autoClosing, closingSnapActive,
             drawingId, timer, segmentLayer, labelLayer, outlineLayer,
             wallsLayer, shadowsLayer, setbackLayer, modulesLayer,
             mouse, store, nextId, drawSeq, creates, updates, deletes,
             dimsCalls, savedTimers, sunColumns, userOps,
             ev, run, burst, unsaved, dragRing >>

vars == << edVars, lay, shadow, lookup, scene >>

---------------------------------------------------------------------------
(* Bounds of the model                                                     *)

\* cursor positions are 0, PosStep, .., MaxPos * PosStep screen pixels
MaxPos == 1
PosStep == 20
\* clicked vertices per draw, draws per run, segments loaded at start
MaxClicks == 2
MaxDraws == 2
InitSegs == 2
\* user operations on the sidebar per run: of the panel specification, of
\* the auto-save specification, of the shape editing specification
MaxOps == 4
MaxSaveOps == 3
MaxEditOps == 6

(* Program constants                                                       *)
SNAP_DISTANCE_PX == 15
\* the 1500 ms debounce and the 2000 ms saved-to-idle delay, in 500 ms ticks
DebounceTicks == 3
SavedTicks == 4

Pos == { i * PosStep : i \in 0..MaxPos }
Dist(a, b) == IF a >= b THEN a - b ELSE b - a

\* distToStart < snapDistanceMeters, both sides divided by the map resolution
Near(a, b) == Dist(a, b) < SNAP_DISTANCE_PX

---------------------------------------------------------------------------
(* The editor state as a record                                            *)

St == [ activeTool |-> activeTool, fieldSegments |-> fieldSegments,
        selectedSegmentId |-> selectedSegmentId,
        isEditingShape |-> isEditingShape, savingStatus |-> savingStatus,
        isSavingNewSegment |-> isSavingNewSegment, isCtrlDown |-> isCtrlDown,
        isLoading |-> isLoading, moduleDims |-> moduleDims,
        toolEnabled |-> toolEnabled, moveAttached |-> moveAttached,
        cur |-> cur, autoClosing |-> autoClosing,
        closingSnapActive |-> closingSnapActive, drawingId |-> drawingId,
        timer |-> timer, segmentLayer |-> segmentLayer,
        labelLayer |-> labelLayer, outlineLayer |-> outlineLayer,
        wallsLayer |-> wallsLayer, shadowsLayer |-> shadowsLayer,
        setbackLayer |-> setbackLayer, modulesLayer |-> modulesLayer,
        mouse |-> mouse, store |-> store, nextId |-> nextId,
        drawSeq |-> drawSeq, creates |-> creates, updates |-> updates,
        deletes |-> deletes, dimsCalls |-> dimsCalls,
        savedTimers |-> savedTimers,
        sunColumns |-> sunColumns, userOps |-> userOps,
        ev |-> ev, run |-> run, burst |-> burst,
        unsaved |-> unsaved, dragRing |-> dragRing,
        \* set by setFieldSegments during a handler, consumed by the next render
        dirty |-> FALSE, repl |-> {} ]

\* the variables take the values of the record r, computed once
Commit(s) ==
  \E r \in {s} :
    /\ activeTool' = r.activeTool
    /\ fieldSegments' = r.fieldSegments
    /\ selectedSegmentId' = r.selectedSegmentId
    /\ isEditingShape' = r.isEditingShape
    /\ savingStatus' = r.savingStatus
    /\ isSavingNewSegment' = r.isSavingNewSegment
    /\ isCtrlDown' = r.isCtrlDown
    /\ isLoading' = r.isLoading
    /\ moduleDims' = r.moduleDims
    /\ toolEnabled' = r.toolEnabled
    /\ moveAttached' = r.moveAttached
    /\ cur' = r.cur
    /\ autoClosing' = r.autoClosing
    /\ closingSnapActive' = r.closingSnapActive
    /\ drawingId' = r.drawingId
    /\ timer' = r.timer
    /\ segmentLayer' = r.segmentLayer
    /\ labelLayer' = r.labelLayer
    /\ outlineLayer' = r.outlineLayer
    /\ wallsLayer' = r.wallsLayer
    /\ shadowsLayer' = r.shadowsLayer
    /\ setbackLayer' = r.setbackLayer
    /\ modulesLayer' = r.modulesLayer
    /\ mouse' = r.mouse
    /\ store' = r.store
    /\ nextId' = r.nextId
    /\ drawSeq' = r.drawSeq
    /\ creates' = r.creates
    /\ updates' = r.updates
    /\ deletes' = r.deletes
    /\ dimsCalls' = r.dimsCalls
    /\ savedTimers' = r.savedTimers
    /\ sunColumns' = r.sunColumns
    /\ userOps' = r.userOps
    /\ ev' = r.ev
    /\ run' = r.run
    /\ burst' = r.burst
    /\ unsaved' = r.unsaved
    /\ dragRing' = r.dragRing
    /\ UNCHANGED << lay, shadow, lookup, scene >>


---------------------------------------------------------------------------
(* Geometry and segments                                                   *)

\* A ring is kept by what the editor reads of it: its number of coordinates,
\* its first coordinate and its last one.
NoRing == [n |-> 0, first |-> 0, last |-> 0]

\* geometry.getArea(): a function of the ring alone, kept one-to-one on the
\* rings of the model so that an area computed from another ring is seen
GetArea(g) == g.n * 100 + g.first * 2 + g.last

\* The draw tool's geometry in progress: the clicked vertices (clicks of them,
\* the last one lastV) and the coordinates of its line string (len of them,
\* the last one last). len = clicks + 1 while a preview point follows the
\* clicked vertices.
NoGeom == [clicks |-> 0, len |-> 0, first |-> 0, lastV |-> 0, last |-> 0]

\* DrawTool polygon mode: the polygon handed to drawvertex and drawend
Generate(c) == [n |-> c.len, first |-> c.first, last |-> c.last]

\* Polygon.getCoordinates(): the array of the polygon's rings (the shell only)
PolygonCoordinates(g) == << g >>

NoSeg == [id |-> 0, geometry |-> NoRing, area |-> 0, sh |-> 0, st |-> 0,
          module |-> 0]

Ids(segs) == { segs[i].id : i \in DOMAIN segs }

Find(segs, id) ==
  IF \E i \in DOMAIN segs : segs[i].id = id
  THEN segs[CHOOSE i \in DOMAIN segs : segs[i].id = id]
  ELSE NoSeg

\* const selectedSegment = fieldSegments.find(s => s.id === selectedSegmentId)
SelSeg(s) == Find(s.fieldSegments, s.selectedSegmentId)

\* start_time: 0 is an absent (null) column, DefaultStart is '10:00'
DefaultStart == 1

\* the row sent by the drawend handler: module null, heights 0, start 10:00
NewSegmentData(g) ==
  [id |-> 0, geometry |-> g, area |-> GetArea(g), sh |-> 0,
   st |-> DefaultStart, module |-> 0]

\* stripSun: the payload without the optional sun / parapet columns
StripSun(row) == [row EXCEPT !.st = 0]

\* startTime: row.start_time ?? '10:00'
MapDbToSegment(row) ==
  [id |-> row.id, geometry |-> row.geometry, area |-> row.area,
   sh |-> row.sh, st |-> IF row.st = 0 THEN DefaultStart ELSE row.st,
   module |-> row.module]

\* A delete in flight holds the array it copied ([...fieldSegments]); touched
\* are the ids whose segment object has been replaced since, so that the
\* copy's object is no longer the one in the state.
Touched(dels, ids) ==
  [i \in DOMAIN dels |-> [dels[i] EXCEPT !.touched = @ \cup ids]]

\* setFieldSegments(prev => prev.map(s => s.id === id ? f(s) : s))
SetGeometry(s, id, g) ==
  [s EXCEPT !.fieldSegments =
              [i \in DOMAIN @ |->
                 IF @[i].id = id
                 THEN [@[i] EXCEPT !.geometry = g, !.area = GetArea(g)]
                 ELSE @[i]],
            !.dirty = TRUE,
            !.repl = @ \cup ({id} \cap Ids(s.fieldSegments)),
            !.deletes = Touched(@, {id} \cap Ids(s.fieldSegments))]

---------------------------------------------------------------------------
(* Labels                                                                  *)

\* updateDistanceLabels(geometry, segmentId): the labels and vertex markers
\* tagged segmentId are removed and one marker per coordinate is added
UpdateDistanceLabels(s, g, tag) ==
  [s EXCEPT !.labelLayer = (@ \ {tag}) \cup (IF g.n > 0 THEN {tag} ELSE {})]

---------------------------------------------------------------------------
(* The draw tool                                                           *)

\* drawend handler, up to its first await
DrawEndHandler(s, g) ==
  LET s1 == IF s.drawingId # 0
            THEN [s EXCEPT !.labelLayer = @ \ {s.drawingId}]
            ELSE s
      s2 == IF s.drawingId # 0
            THEN UpdateDistanceLabels(s1, g, s.drawingId)
            ELSE s1
  IN [s2 EXCEPT !.isSavingNewSegment = TRUE,
                !.drawingId = 0,
                !.creates = Append(@, [row |-> NewSegmentData(g),
                                       attempt |-> 1])]

\* drawTool.endDraw(): nothing without a geometry in progress; otherwise
\* drawend fires with the polygon generated from the current coordinates
EndDraw(s) ==
  IF s.cur = NoGeom THEN s
  ELSE [DrawEndHandler(s, Generate(s.cur)) EXCEPT !.cur = NoGeom]

\* if (!autoClosingRef.current)
LatchInverted(s) == s.autoClosing
MayAutoClose(s) == ~s.autoClosing

\* the last coordinate of the geometry in progress is set to the start
KeepPreview(s) == s
SnapPreview(s) == [s EXCEPT !.cur.last = s.cur.first]

\* handleMouseMove(e), e.coordinate = p
HandleMouseMove(s, p) ==
  IF s.activeTool # "draw" THEN s
  ELSE IF s.cur = NoGeom \/ s.cur.len = 0 THEN s
  ELSE LET isClosingSnap == s.cur.len > 2 /\ Near(p, s.cur.first)
           s1 == [s EXCEPT !.closingSnapActive = isClosingSnap]
       IN IF isClosingSnap /\ s.cur.len > 2
          THEN LET s2 == SnapPreview(s1)
               IN IF MayAutoClose(s2)
                  THEN EndDraw([s2 EXCEPT !.autoClosing = TRUE])
                  ELSE s2
          ELSE IF ~isClosingSnap
               THEN [s1 EXCEPT !.autoClosing = FALSE]
               ELSE s1

\* the draw tool's own mousemove: the preview point follows the cursor
ToolMouseMove(s, p) ==
  IF s.toolEnabled /\ s.cur # NoGeom
  THEN [s EXCEPT !.cur.len = s.cur.clicks + 1, !.cur.last = p]
  ELSE s

\* drawstart handler: a fresh temporary id tags the labels of this drawing
DrawStartHandler(s) ==
  [s EXCEPT !.drawingId = 0 - (s.drawSeq + 1), !.drawSeq = @ + 1]

\* drawvertex handler
DrawVertexHandler(s, g) ==
  IF s.drawingId = 0 THEN s
  ELSE LET s1 == UpdateDistanceLabels(s, g, s.drawingId)
           coords == PolygonCoordinates(g)
       IN IF Len(coords) > 2 /\ Near(g.last, g.first)
          THEN EndDraw(s1)
          ELSE s1

\* a click on the map while the draw tool is enabled
ToolClick(s) ==
  IF s.cur = NoGeom
  THEN DrawStartHandler(
         [s EXCEPT !.cur = [clicks |-> 1, len |-> 1, first |-> s.mouse,
                            lastV |-> s.mouse, last |-> s.mouse]])
  ELSE LET c == [s.cur EXCEPT !.clicks = @ + 1, !.len = s.cur.clicks + 1,
                              !.lastV = s.mouse, !.last = s.mouse]
       IN DrawVertexHandler([s EXCEPT !.cur = c], Generate(c))

---------------------------------------------------------------------------
(* Shape editing                                                           *)

\* a call to the store's update: kind "attrs" carries the attributes of row,
\* kind "geometry" its geometry and area
UpdateCall(id, kind, row, attempt) ==
  [id |-> id, kind |-> kind, row |-> row, attempt |-> attempt]

\* editend listener of the tool activation effect, up to its await
EditEndHandler(s, id) ==
  LET g == s.segmentLayer[id].ring
      s1 == UpdateDistanceLabels(s, g, id)
      s2 == SetGeometry(s1, id, g)
  IN [s2 EXCEPT !.updates =
        Append(@, UpdateCall(id, "geometry",
                             [NoSeg EXCEPT !.id = id, !.geometry = g,
                                           !.area = GetArea(g)], 1))]

RECURSIVE FireEditEnd(_, _, _)
FireEditEnd(s, id, k) ==
  IF k = 0 THEN s ELSE FireEditEnd(EditEndHandler(s, id), id, k - 1)

\* geom.endEdit(): the editor stops and editend fires to every listener
\* still registered (off('editend') without a handler removes none)
GeomEndEdit(s, id) ==
  IF s.segmentLayer[id].editing
  THEN FireEditEnd([s EXCEPT !.segmentLayer[id].editing = FALSE],
                   id, s.segmentLayer[id].hooks)
  ELSE s

RECURSIVE EndAllEdits(_, _)
EndAllEdits(s, ids) ==
  IF ids = {} THEN s
  ELSE LET id == CHOOSE x \in ids : TRUE
       IN EndAllEdits(GeomEndEdit(s, id), ids \ {id})

\* geom.startEdit(): a running edit is ended first
GeomStartEdit(s, id) ==
  [GeomEndEdit(s, id) EXCEPT !.segmentLayer[id].editing = TRUE]

---------------------------------------------------------------------------
(* Effects                                                                 *)

NoTimer == [left |-> 0 - 1, seg |-> NoSeg]

\* labelLayer.clear()
KeepLabelLayer(layer) == layer
ClearLabelLayer(layer) == {}

\* sync effect: the three layers are cleared (a geometry removed while it is
\* being edited ends its edit) and rebuilt from the rendered fieldSegments
SyncEffect(c, rs) ==
  LET c1 == EndAllEdits(c, DOMAIN c.segmentLayer)
      c2 == [c1 EXCEPT !.labelLayer = ClearLabelLayer(@)]
      segs == rs.fieldSegments
  IN [c2 EXCEPT
        !.segmentLayer =
           [id \in Ids(segs) |->
              [ring |-> Find(segs, id).geometry, editing |-> FALSE,
               hooks |-> 0]],
        !.outlineLayer = Ids(segs),
        !.labelLayer =
           @ \cup { id \in Ids(segs) : Find(segs, id).geometry.n > 0 }]

\* a shell with at least two coordinates and an edge of non-zero length
HasWall(g) == g.n >= 2 /\ (g.n > 2 \/ g.first # g.last)

WallsEffect(c, rs) ==
  [c EXCEPT !.wallsLayer =
     { id \in Ids(rs.fieldSegments) :
         HasWall(Find(rs.fieldSegments, id).geometry) }]

\* shadows are projected for a segment whose total height is positive (the
\* sun is above the horizon in the sampled interval)
ShadowsEffect(c, rs) ==
  [c EXCEPT !.shadowsLayer =
     { id \in Ids(rs.fieldSegments) :
         Find(rs.fieldSegments, id).sh > 0
         /\ Find(rs.fieldSegments, id).geometry.n > 0 }]

\* module layout effect, by segment: the setback overlay of every segment,
\* module rectangles for a segment with a module whose dimensions are cached
LayoutEffect(c, rs) ==
  [c EXCEPT
     !.setbackLayer =
        { id \in Ids(rs.fieldSegments) :
            Find(rs.fieldSegments, id).geometry.n > 0 },
     !.modulesLayer =
        { id \in Ids(rs.fieldSegments) :
            LET seg == Find(rs.fieldSegments, id)
            IN seg.module # 0 /\ seg.module \in rs.moduleDims
               /\ seg.geometry.n > 2 }]

\* preload effect: ensureModuleDims for every module in use and not cached
PreloadDims(c, rs) ==
  [c EXCEPT !.dimsCalls =
     @ \cup ({ rs.fieldSegments[i].module : i \in DOMAIN rs.fieldSegments }
              \ ({0} \cup rs.moduleDims))]

\* debounced auto-save effect
DebounceCleanup(c) == [c EXCEPT !.timer = NoTimer]

\* setTimeout(async () => { ... selectedSegment ... }, 1500)
ArmTimer(seg) == [left |-> DebounceTicks, seg |-> seg]

DebounceBody(c, rs) ==
  IF SelSeg(rs) = NoSeg THEN c
  ELSE [c EXCEPT !.timer = ArmTimer(SelSeg(rs)),
                 !.savingStatus = "saving"]

\* tool activation effect
ToolCleanup(c) ==
  LET c1 == [c EXCEPT !.toolEnabled = FALSE, !.moveAttached = FALSE]
      c2 == EndAllEdits(c1, DOMAIN c1.segmentLayer)
  IN EndDraw(c2)

RECURSIVE HookEdits(_, _, _)
HookEdits(c, rs, ids) ==
  IF ids = {} THEN c
  ELSE LET id == CHOOSE x \in ids : TRUE
           c1 == IF rs.isEditingShape /\ id = rs.selectedSegmentId
                 THEN [GeomStartEdit(c, id) EXCEPT
                         !.segmentLayer[id].hooks = @ + 1]
                 ELSE GeomEndEdit(c, id)
       IN HookEdits(c1, rs, ids \ {id})

\* activeTool === 'draw' && !isCtrlDown
DrawSelected(rs) == rs.activeTool = "draw"
DrawAllowed(rs) == rs.activeTool = "draw" /\ ~rs.isCtrlDown

ToolBody(c, rs) ==
  LET c1 == IF DrawAllowed(rs)
            THEN [c EXCEPT !.toolEnabled = TRUE, !.moveAttached = TRUE]
            ELSE c
  IN HookEdits(c1, rs, DOMAIN c1.segmentLayer)

---------------------------------------------------------------------------
(* Rendering: the effects whose dependencies changed                       *)

MaxPasses == 4

\* the selectedSegment object of the new render is another object
SelChanged(old, s) ==
  \/ SelSeg(old) # SelSeg(s)
  \/ SelSeg(s) # NoSeg /\ s.selectedSegmentId \in s.repl

ToolChanged(old, s) ==
  << old.activeTool, old.isCtrlDown, old.isEditingShape,
     old.selectedSegmentId >>
    # << s.activeTool, s.isCtrlDown, s.isEditingShape, s.selectedSegmentId >>

\* cleanups of the effects whose dependencies changed
Cleanups(old, s, rs) ==
  LET c1 == IF SelChanged(old, s) THEN DebounceCleanup(rs) ELSE rs
  IN IF ToolChanged(old, s) THEN ToolCleanup(c1) ELSE c1

\* bodies of the effects on fieldSegments and moduleDims, as defined in order
LayerEffects(old, s, rs, c) ==
  LET c1 == IF s.dirty
            THEN ShadowsEffect(
                   WallsEffect(SyncEffect(PreloadDims(c, rs), rs), rs), rs)
            ELSE c
  IN IF s.dirty \/ old.moduleDims # s.moduleDims
     THEN LayoutEffect(c1, rs)
     ELSE c1

\* bodies of the auto-save effect and of the tool activation effect
LateEffects(old, s, rs, c) ==
  LET c1 == IF SelChanged(old, s) THEN DebounceBody(c, rs) ELSE c
  IN IF ToolChanged(old, s) THEN ToolBody(c1, rs) ELSE c1

\* the rendered values: what setFieldSegments marked is consumed
Rendered(s) == [s EXCEPT !.dirty = FALSE, !.repl = {}]

\* A handler's new state s is rendered and becomes the editor's state: the
\* cleanups of the effects whose dependencies changed run, then their bodies
\* in the order of definition; a state change made by an effect is rendered
\* by a further pass. Every stage is computed once.
RECURSIVE RenderFrom(_, _, _)
RenderFrom(old, s, fuel) ==
  \E rs \in {Rendered(s)} :
    \E c1 \in {Cleanups(old, s, rs)} :
      \E c2 \in {LayerEffects(old, s, rs, c1)} :
        \E c3 \in {LateEffects(old, s, rs, c2)} :
          IF c3.dirty /\ fuel > 0
          THEN RenderFrom(rs, c3, fuel - 1)
          ELSE Commit(c3)

Do(s) == \E old \in {St} : \E h \in {s} : RenderFrom(old, h, MaxPasses)

---------------------------------------------------------------------------
(* History of the snap session and of the last event                       *)

\* the last panel operation or store answer on the segments
Ev(type, id) == [type |-> type, id |-> id]

\* the attribute edits of one segment less than the debounce delay apart,
\* the update calls the timer has issued for them, the ticks since the last
NoBurst == [id |-> 0, edits |-> 0, calls |-> 0, since |-> 0]

\* the segment whose shape is edited, its ring as the last drag left it,
\* whether an attribute of it was edited since the drag
NoDrag == [id |-> 0, ring |-> NoRing, dragged |-> FALSE, edited |-> FALSE]

RunOff == [on |-> FALSE, snap |-> FALSE, ends |-> 0, moves |-> 0, first |-> 0]

\* the cursor at p is within the snap radius of the first vertex of the
\* geometry being drawn
InRadius(s, p) ==
  s.activeTool = "draw" /\ s.moveAttached /\ s.cur # NoGeom
  /\ Near(p, s.cur.first)

ClosingSnap(s, p) == InRadius(s, p) /\ s.cur.len > 2

MaxMoves == 3

\* A snap session: consecutive mouse moves with the cursor within the snap
\* radius of the first vertex, the moves that hover there after the draw has
\* ended included.
RunAfterMove(s, r, p, ended) ==
  IF InRadius(s, p)
  THEN [on |-> TRUE, first |-> s.cur.first,
        snap |-> r.snap \/ ClosingSnap(s, p),
        ends |-> r.ends + (IF ended THEN 1 ELSE 0),
        moves |-> IF r.moves < MaxMoves THEN r.moves + 1 ELSE r.moves]
  ELSE IF r.on /\ s.cur = NoGeom /\ Near(p, r.first)
       THEN [r EXCEPT !.moves = IF @ < MaxMoves THEN @ + 1 ELSE @]
       ELSE RunOff

---------------------------------------------------------------------------
(* Pointer and keyboard on the map                                         *)

\* mousemove on the map: handleMouseMove (registered first), then the draw
\* tool's own handler
MouseMove(p) ==
  /\ p \in Pos
  /\ LET s0 == [St EXCEPT !.mouse = p]
         s1 == IF St.moveAttached THEN HandleMouseMove(s0, p) ELSE s0
         s2 == ToolMouseMove(s1, p)
         ended == St.cur # NoGeom /\ s1.cur = NoGeom
     IN Do([s2 EXCEPT !.run = RunAfterMove(St, run, p, ended)])

\* click on the map: the enabled draw tool starts a geometry or adds a vertex
MapClick ==
  /\ toolEnabled
  /\ cur = NoGeom => drawSeq < MaxDraws
  /\ cur # NoGeom => cur.clicks < MaxClicks /\ mouse # cur.lastV
  /\ Do([ToolClick(St) EXCEPT !.run = RunOff])

\* mousedown on the start marker of the drawing in progress
StartMarkerDown ==
  /\ drawingId # 0 /\ cur # NoGeom /\ mouse = cur.first
  /\ Do([(IF cur.len > 2 THEN EndDraw(St) ELSE St) EXCEPT !.run = RunOff])

\* keydown of the control key (repeats while held)
KeyDown ==
  /\ toolEnabled \in BOOLEAN
  /\ Do([EndDraw([St EXCEPT !.isCtrlDown = TRUE]) EXCEPT !.run = RunOff])

\* keyup of the control key, or the window losing focus
KeyUp ==
  /\ isCtrlDown
  /\ Do([St EXCEPT !.isCtrlDown = FALSE, !.run = RunOff])

---------------------------------------------------------------------------
(* Sidebar of the draw tool                                                *)

\* userOps is the number of user operations on the sidebar left to the run;
\* a run that starts with Unbounded has no such limit.
Unbounded == 0 - 1
CanSpend == userOps # 0
Spend(s) == [s EXCEPT !.userOps = IF @ = Unbounded THEN @ ELSE @ - 1,
                      !.burst = IF @.calls > 0 THEN NoBurst ELSE @,
                      !.run = RunOff]

\* New button (list view): setActiveTool('draw')
NewSegment ==
  /\ CanSpend
  /\ activeTool # "draw" /\ SelSeg(St) = NoSeg
  /\ Do(Spend([St EXCEPT !.activeTool = "draw"]))

\* Back button of the create panel (disabled while saving)
PanelBack ==
  /\ CanSpend
  /\ activeTool = "draw" /\ ~isSavingNewSegment
  /\ Do(Spend([St EXCEPT !.activeTool = "none"]))

\* Clear Shape button of the create panel (disabled while saving)
ClearShape ==
  /\ activeTool = "draw" /\ ~isSavingNewSegment
  /\ Do([EndDraw(St) EXCEPT !.run = RunOff])

\* Back button of the segment panel: setSelectedSegmentId(null)
SegmentBack ==
  /\ CanSpend
  /\ activeTool # "draw" /\ SelSeg(St) # NoSeg
  /\ Do(Spend([St EXCEPT !.selectedSegmentId = 0,
                         !.ev = Ev("deselect", 0)]))

---------------------------------------------------------------------------
(* The store answers                                                       *)

RemoveAt(seq, i) == [j \in 1..(Len(seq) - 1) |->
                       IF j < i THEN seq[j] ELSE seq[j + 1]]

EmptyStore == [x \in {} |-> NoSeg]

\* select('*').order('created_at'): the rows in the order of their creation
RECURSIVE Rows(_, _)
Rows(st, n) ==
  IF n = 0 THEN << >>
  ELSE IF n \in DOMAIN st THEN Append(Rows(st, n - 1), st[n])
       ELSE Rows(st, n - 1)

\* after the awaits of the drawend handler
KeepSaving(s) == s
ClearSaving(s) == [s EXCEPT !.isSavingNewSegment = FALSE]

CreateFinish(s, ok, row) ==
  LET s1 == [ClearSaving(s) EXCEPT !.activeTool = "none"]
  IN IF ok
     THEN [s1 EXCEPT !.fieldSegments = Append(@, MapDbToSegment(row)),
                     !.selectedSegmentId = row.id,
                     !.dirty = TRUE]
     ELSE s1

\* the insert of creates[i] is answered; fail is an error of the call, and a
\* table without the sun columns rejects the first payload with a 'column'
\* error, after which the handler sends the payload without them
CreateResolve(i, fail) ==
  /\ i \in DOMAIN creates
  /\ LET c == creates[i]
         row == [c.row EXCEPT !.id = nextId]
         s0 == [St EXCEPT !.ev = Ev("created", 0)]
     IN IF fail
        THEN Do(CreateFinish([s0 EXCEPT !.creates = RemoveAt(@, i),
                                        !.ev = Ev("createFailed", c.attempt)],
                             FALSE, c.row))
        ELSE IF c.attempt = 1 /\ ~sunColumns
        THEN Do([s0 EXCEPT !.creates[i] = [row |-> StripSun(c.row),
                                           attempt |-> 2],
                           !.ev.type = "createRetry"])
        ELSE Do(CreateFinish([s0 EXCEPT !.creates = RemoveAt(@, i),
                                        !.store = @ @@ (nextId :> row),
                                        !.nextId = @ + 1,
                                        !.ev.id = nextId],
                             TRUE, row))

\* the initial select of the design's segments is answered
FetchResolve(fail) ==
  /\ isLoading
  /\ LET s0 == [St EXCEPT !.isLoading = FALSE,
                          !.ev = Ev("fetched", 0)]
         rows == Rows(store, nextId)
         mapped == [i \in DOMAIN rows |-> MapDbToSegment(rows[i])]
     IN IF fail THEN Do(s0)
        ELSE Do([s0 EXCEPT !.fieldSegments = mapped,
                           !.dirty = TRUE,
                           !.repl = Ids(mapped),
                           !.deletes = Touched(@, Ids(mapped))])

---------------------------------------------------------------------------
(* Segment list and segment panel                                          *)

\* the fields of a segment edited in the panel, and their values
Fields == {"sh", "st", "module"}
Values(f) == IF f = "st" THEN {DefaultStart, DefaultStart + 1} ELSE {0, 1}

\* the closed rings a vertex drag or a draw can leave
Rings == { [n |-> 4, first |-> p, last |-> p] : p \in Pos }

\* a row of the list is clicked: setSelectedSegmentId(seg.id)
SelectSegment(id) ==
  /\ CanSpend
  /\ activeTool # "draw" /\ SelSeg(St) = NoSeg /\ ~isLoading
  /\ id \in Ids(fieldSegments)
  /\ Do(Spend([St EXCEPT !.selectedSegmentId = id,
                         !.ev = Ev("select", id)]))

\* FieldSegmentPanel.handleUpdate(field, value) -> handleUpdateSegment
HandleUpdateSegment(s, id, f, v) ==
  [s EXCEPT !.fieldSegments =
              [i \in DOMAIN @ |->
                 IF @[i].id = id THEN [@[i] EXCEPT ![f] = v] ELSE @[i]],
            !.dirty = TRUE,
            !.repl = @ \cup ({id} \cap Ids(s.fieldSegments)),
            !.deletes = Touched(@, {id} \cap Ids(s.fieldSegments))]

\* an input of the panel changes the field f of the selected segment to v
EditAttr(f, v) ==
  /\ CanSpend
  /\ activeTool # "draw" /\ SelSeg(St) # NoSeg
  /\ f \in Fields /\ v \in Values(f) /\ SelSeg(St)[f] # v
  /\ LET id == selectedSegmentId
         b == IF burst.id = id /\ burst.since < DebounceTicks
                 /\ burst.calls = 0
              THEN [burst EXCEPT !.edits = @ + 1,
                                 !.since = 0]
              ELSE [id |-> id, edits |-> 1, calls |-> 0, since |-> 0]
         s0 == [Spend(St) EXCEPT
                  !.burst = b,
                  !.unsaved = @ \cup {id},
                  !.dragRing = IF isEditingShape /\ @.id = id
                               THEN [@ EXCEPT !.edited = TRUE] ELSE @,
                  !.ev = Ev("edit", id)]
     IN Do(HandleUpdateSegment(s0, id, f, v))

\* handleDeleteSegment(id), up to its await: the trash button of a row of the
\* list, or the one of the panel of the selected segment
DeleteSegment(id) ==
  /\ CanSpend
  /\ activeTool # "draw" /\ id \in Ids(fieldSegments)
  /\ IF SelSeg(St) = NoSeg THEN ~isLoading ELSE id = selectedSegmentId
  /\ Do([Spend(St) EXCEPT
           !.deletes = Append(@, [id |-> id, snapshot |-> fieldSegments,
                                  touched |-> {}]),
           !.fieldSegments = SelectSeq(@, LAMBDA x : x.id # id),
           !.dirty = TRUE,
           !.selectedSegmentId = 0,
           !.unsaved = @ \ {id},
           !.ev = Ev("delete", id)])

\* beginEditSelected()
BeginEdit ==
  /\ CanSpend
  /\ activeTool # "draw" /\ SelSeg(St) # NoSeg /\ ~isEditingShape
  /\ LET id == selectedSegmentId
     IN IF id \notin DOMAIN segmentLayer THEN Do(Spend(St))
        ELSE Do([GeomStartEdit(Spend(St), id) EXCEPT
                   !.isEditingShape = TRUE,
                   !.dragRing = [id |-> id, ring |-> segmentLayer[id].ring,
                                 dragged |-> FALSE, edited |-> FALSE],
                   !.ev = Ev("beginEdit", id)])

\* a vertex handle of the polygon being edited is dragged and released: the
\* polygon has the ring r, shapechange redraws its labels
VertexDrag(id, r) ==
  /\ CanSpend
  /\ id \in DOMAIN segmentLayer /\ segmentLayer[id].editing
  /\ r \in Rings /\ r # segmentLayer[id].ring
  /\ Do([UpdateDistanceLabels(Spend(St), r, id) EXCEPT
           !.segmentLayer[id].ring = r,
           !.dragRing = [id |-> id, ring |-> r, dragged |-> TRUE,
                         edited |-> FALSE],
           !.ev = Ev("drag", id)])

\* endEditSelected(), up to its await
EndEditSelected(s, id) ==
  IF id \notin DOMAIN s.segmentLayer
  THEN [s EXCEPT !.isEditingShape = FALSE]
  ELSE LET s1 == [GeomEndEdit(s, id) EXCEPT !.isEditingShape = FALSE]
           g == s1.segmentLayer[id].ring
           s2 == SetGeometry(UpdateDistanceLabels(s1, g, id), id, g)
       IN [s2 EXCEPT !.updates =
             Append(@, UpdateCall(id, "geometry",
                                  [NoSeg EXCEPT !.id = id, !.geometry = g,
                                                !.area = GetArea(g)], 1))]

\* the Done Editing button of the panel
EndEdit ==
  /\ CanSpend
  /\ activeTool # "draw" /\ SelSeg(St) # NoSeg /\ isEditingShape
  /\ Do([EndEditSelected(Spend(St), selectedSegmentId) EXCEPT
           !.ev = Ev("endEdit", selectedSegmentId)])

\* a polygon is drawn and closed with the draw tool: drawstart .. drawend
DrawEnd(g) ==
  /\ CanSpend
  /\ toolEnabled /\ drawSeq < MaxDraws /\ cur = NoGeom
  /\ g \in Rings
  /\ Do([DrawEndHandler(DrawStartHandler(Spend(St)), g) EXCEPT
           !.ev = Ev("drawEnd", 0)])

---------------------------------------------------------------------------
(* Timers and the answers of the store to update and delete               *)

\* 500 ms pass: no timeout is due; one at least is pending, or the last
\* attribute edit is less than the debounce delay old
Tick ==
  /\ timer.left # 0 /\ 0 \notin savedTimers
  /\ \/ timer.left > 0
     \/ savedTimers # {}
     \/ burst.id # 0 /\ burst.since < DebounceTicks
  /\ Do([St EXCEPT
           !.timer.left = IF @ > 0 THEN @ - 1 ELSE @,
           !.savedTimers = { x - 1 : x \in @ },
           !.burst.since = IF burst.id # 0 /\ @ < DebounceTicks
                           THEN @ + 1 ELSE @])

\* the debounce timeout fires: update(payload) with the attributes of the
\* selectedSegment its closure captured
TimerFire ==
  /\ timer.left = 0
  /\ Do([St EXCEPT
           !.timer = NoTimer,
           !.updates = Append(@, UpdateCall(timer.seg.id, "attrs",
                                            timer.seg, 1)),
           !.unsaved = @ \ {timer.seg.id},
           !.burst.calls = IF burst.id = timer.seg.id /\ @ < 2
                           THEN @ + 1 ELSE @,
           !.ev = Ev("flush", timer.seg.id)])

\* setTimeout(() => setSavingStatus('idle'), 2000) fires
SavedFire ==
  /\ 0 \in savedTimers
  /\ Do([St EXCEPT !.savedTimers = @ \ {0}, !.savingStatus = "idle"])

\* update(...).eq('id', id) applied by the store: a row that exists takes the
\* columns of the payload
ApplyUpdate(st, u) ==
  IF u.id \notin DOMAIN st THEN st
  ELSE IF u.kind = "geometry"
  THEN [st EXCEPT ![u.id].geometry = u.row.geometry,
                  ![u.id].area = u.row.area]
  ELSE [st EXCEPT ![u.id].sh = u.row.sh,
                  ![u.id].module = u.row.module,
                  ![u.id].st = IF u.attempt = 1 THEN u.row.st ELSE @]

\* the update call updates[i] is answered; a payload with the sun columns is
\* rejected with a 'column' error by a table without them and sent again
\* without them
UpdateResolve(i, fail) ==
  /\ i \in DOMAIN updates
  /\ LET u == updates[i]
         s0 == [St EXCEPT !.ev = Ev("updated", u.id)]
         s1 == [s0 EXCEPT !.updates = RemoveAt(@, i)]
     IN IF u.kind = "geometry"
        THEN IF fail THEN Do([s1 EXCEPT !.ev.type = "updateFailed"])
             ELSE Do([s1 EXCEPT !.store = ApplyUpdate(@, u)])
        ELSE IF fail
        THEN Do([s1 EXCEPT !.savingStatus = "error",
                           !.ev.type = "updateFailed"])
        ELSE IF u.attempt = 1 /\ ~sunColumns
        THEN Do([s0 EXCEPT !.updates[i] =
                             UpdateCall(u.id, "attrs", StripSun(u.row), 2),
                           !.ev.type = "updateRetry"])
        ELSE Do([s1 EXCEPT !.store = ApplyUpdate(@, u),
                           !.savingStatus = "saved",
                           !.savedTimers = @ \cup {SavedTicks}])

\* the delete call deletes[i] is answered; on an error the handler puts back
\* the array it copied before the call
DeleteResolve(i, fail) ==
  /\ i \in DOMAIN deletes
  /\ LET d == deletes[i]
         back == d.touched \cap Ids(d.snapshot)
         s0 == [St EXCEPT !.deletes = RemoveAt(@, i)]
     IN IF fail
        THEN Do([s0 EXCEPT !.fieldSegments = d.snapshot,
                           !.dirty = TRUE,
                           !.repl = back,
                           !.deletes = Touched(@, back),
                           !.ev = Ev("deleteFailed", d.id)])
        ELSE Do([s0 EXCEPT !.store = [x \in DOMAIN @ \ {d.id} |-> @[x]],
                           !.ev = Ev("deleted", d.id)])

\* the select of module_details awaited by ensureModuleDims is answered:
\* the parsed dimensions, or the default ones, are cached
DimsResolve(m) ==
  /\ m \in dimsCalls
  /\ Do([St EXCEPT !.dimsCalls = @ \ {m}, !.moduleDims = @ \cup {m}])

---------------------------------------------------------------------------
(* The editor after it is mounted                                          *)

LayIdle == [phase |-> "idle"]
ShadowIdle == [phase |-> "idle"]
LookupIdle == [phase |-> "idle"]
SceneIdle == [phase |-> "idle"]

\* the state after the first render and its effects: the draw tool is added
\* to the map (which enables it), the select of the segments is in flight
Mounted(rows, loading, ops, sun) ==
  /\ activeTool = "none"
  /\ fieldSegments = << >>
  /\ selectedSegmentId = 0
  /\ isEditingShape = FALSE
  /\ savingStatus = "idle"
  /\ isSavingNewSegment = FALSE
  /\ isCtrlDown = FALSE
  /\ isLoading = loading
  /\ moduleDims = {}
  /\ toolEnabled = TRUE
  /\ moveAttached = FALSE
  /\ cur = NoGeom
  /\ autoClosing = FALSE
  /\ closingSnapActive = FALSE
  /\ drawingId = 0
  /\ timer = NoTimer
  /\ segmentLayer = EmptyStore
  /\ labelLayer = {}
  /\ outlineLayer = {}
  /\ wallsLayer = {}
  /\ shadowsLayer = {}
  /\ setbackLayer = {}
  /\ modulesLayer = {}
  /\ mouse = 0
  /\ store = rows
  /\ nextId = Cardinality(DOMAIN rows) + 1
  /\ drawSeq = 0
  /\ creates = << >>
  /\ updates = << >>
  /\ deletes = << >>
  /\ dimsCalls = {}
  /\ savedTimers = {}
  /\ sunColumns \in sun
  /\ userOps = ops
  /\ ev = Ev("mount", 0)
  /\ run = RunOff
  /\ burst = NoBurst
  /\ unsaved = {}
  /\ dragRing = NoDrag

---------------------------------------------------------------------------
(* Specification of the draw tool and of the creation of segments          *)

\* an empty design, its (empty) list of segments loaded
InitDraw ==
  /\ Mounted(EmptyStore, FALSE, Unbounded, BOOLEAN)
  /\ lay = LayIdle /\ shadow = ShadowIdle /\ lookup = LookupIdle
  /\ scene = SceneIdle

NextDraw ==
  \/ \E p \in Pos : MouseMove(p)
  \/ MapClick
  \/ StartMarkerDown
  \/ KeyDown
  \/ KeyUp
  \/ NewSegment
  \/ PanelBack
  \/ ClearShape
  \/ SegmentBack
  \/ \E i \in 1..MaxDraws, fail \in BOOLEAN : CreateResolve(i, fail)

SpecDraw == InitDraw /\ [][NextDraw]_vars

\* the store answers every call
SpecDrawLive ==
  SpecDraw /\ WF_vars(\E i \in 1..MaxDraws, fail \in BOOLEAN :
                         CreateResolve(i, fail))

---------------------------------------------------------------------------
(* Specification of the segment list, the panel and the store              *)

\* the rows of the design in the store when the editor is opened
InitRow(i) ==
  [id |-> i,
   geometry |-> [n |-> 4, first |-> ((i - 1) % (MaxPos + 1)) * PosStep,
                 last |-> ((i - 1) % (MaxPos + 1)) * PosStep],
   area |-> GetArea([n |-> 4, first |-> ((i - 1) % (MaxPos + 1)) * PosStep,
                     last |-> ((i - 1) % (MaxPos + 1)) * PosStep]),
   sh |-> i % 2, st |-> 0, module |-> i % 2]

InitRows == [i \in 1..InitSegs |-> InitRow(i)]

SegIds == 1..(InitSegs + MaxDraws)

\* The panel: every operation of the sidebar and every answer of the store,
\* within the debounce delay of the first operation (no timeout fires).
Init ==
  /\ Mounted(InitRows, TRUE, MaxOps, BOOLEAN)
  /\ lay = LayIdle /\ shadow = ShadowIdle /\ lookup = LookupIdle
  /\ scene = SceneIdle

Next ==
  \/ \E fail \in BOOLEAN : FetchResolve(fail)
  \/ \E id \in SegIds : SelectSegment(id)
  \/ SegmentBack
  \/ \E f \in Fields, v \in 0..2 : EditAttr(f, v)
  \/ \E id \in SegIds : DeleteSegment(id)
  \/ BeginEdit
  \/ \E id \in SegIds, r \in Rings : VertexDrag(id, r)
  \/ EndEdit
  \/ \E g \in Rings : DrawEnd(g)
  \/ \E i \in DOMAIN creates, fail \in BOOLEAN : CreateResolve(i, fail)
  \/ \E i \in DOMAIN updates, fail \in BOOLEAN : UpdateResolve(i, fail)
  \/ \E i \in DOMAIN deletes, fail \in BOOLEAN : DeleteResolve(i, fail)
  \/ \E m \in dimsCalls : DimsResolve(m)

Spec == Init /\ [][Next]_vars

\* The auto-save: selection, attribute edits, the timeouts and the answers
\* of the store to the update calls.
InitSave ==
  /\ Mounted(InitRows, TRUE, MaxSaveOps, BOOLEAN)
  /\ lay = LayIdle /\ shadow = ShadowIdle /\ lookup = LookupIdle
  /\ scene = SceneIdle

NextSave ==
  \/ \E fail \in BOOLEAN : FetchResolve(fail)
  \/ \E id \in SegIds : SelectSegment(id)
  \/ SegmentBack
  \/ \E f \in Fields, v \in 0..2 : EditAttr(f, v)
  \/ Tick
  \/ TimerFire
  \/ SavedFire
  \/ \E i \in DOMAIN updates, fail \in BOOLEAN : UpdateResolve(i, fail)
  \/ \E m \in dimsCalls : DimsResolve(m)

SpecSave == InitSave /\ [][NextSave]_vars

\* Shape editing: selection, vertex drags, edits of the surface height,
\* deletion, and the answers of the store, on a table with the sun columns.
InitEdit ==
  /\ Mounted(InitRows, TRUE, MaxEditOps, {TRUE})
  /\ lay = LayIdle /\ shadow = ShadowIdle /\ lookup = LookupIdle
  /\ scene = SceneIdle

NextEdit ==
  \/ \E fail \in BOOLEAN : FetchResolve(fail)
  \/ \E id \in SegIds : SelectSegment(id)
  \/ \E v \in 0..2 : EditAttr("sh", v)
  \/ BeginEdit
  \/ \E id \in SegIds, r \in Rings : VertexDrag(id, r)
  \/ EndEdit
  \/ \E id \in SegIds : DeleteSegment(id)
  \/ \E i \in DOMAIN deletes, fail \in BOOLEAN : DeleteResolve(i, fail)
  \/ \E i \in DOMAIN updates, fail \in BOOLEAN : UpdateResolve(i, fail)

SpecEdit == InitEdit /\ [][NextEdit]_vars

---------------------------------------------------------------------------
(* The module layout: plane geometry                                       *)

\* Lengths are whole numbers of a unit of 8 micrometres (a foot, the
\* default gap and the halves of the module sizes are whole in it), and
\* positions are points of a plane, x to the east and y to the north: a
\* segment is small enough for the sphere to be flat.  A length that is
\* not whole is rounded down to the unit.
Metre == 125 * 1000
Kilometre == 1000 * Metre

\* 0.3048 m
FOOT == 38100
\* DEFAULT_GAP, 0.02 ft
DEFAULT_GAP == 762

\* const meters = (ft) => ft * 0.3048
meters(ft) == ft * FOOT

\* turf.distance(origin, p), called without units: the length in
\* kilometres, a number the layout goes on to read as metres
distance(d) == d \div 1000

Pt(x, y) == [x |-> x, y |-> y]
Box(x0, y0, x1, y1) == [x0 |-> x0, y0 |-> y0, x1 |-> x1, y1 |-> y1]

Min(S) == CHOOSE v \in S : \A w \in S : v <= w
Max(S) == CHOOSE v \in S : \A w \in S : w <= v

\* A ring with sides along the axes is given by the maximal rectangles of
\* the region it bounds: a rectangle lies in the region if and only if it
\* lies in one of them.
Xs(region) == {r.x0 : r \in region} \cup {r.x1 : r \in region}
Ys(region) == {r.y0 : r \in region} \cup {r.y1 : r \in region}

\* the quarter of the plane to the east or west, north or south of p is,
\* near p, part of the region
Covers(region, p, east, north) ==
  \E r \in region :
    /\ IF east THEN r.x0 <= p.x /\ p.x < r.x1 ELSE r.x0 < p.x /\ p.x <= r.x1
    /\ IF north THEN r.y0 <= p.y /\ p.y < r.y1 ELSE r.y0 < p.y /\ p.y <= r.y1

\* poly.getShell(), the coordinates of the ring: the corners of the region
getShell(region) ==
  { p \in {Pt(x, y) : x \in Xs(region), y \in Ys(region)} :
      Cardinality({ q \in BOOLEAN \X BOOLEAN :
                      Covers(region, p, q[1], q[2]) }) \in {1, 3} }

RECURSIVE SumX(_)
SumX(P) ==
  IF P = {} THEN 0
  ELSE LET p == CHOOSE q \in P : TRUE IN p.x + SumX(P \ {p})

RECURSIVE SumY(_)
SumY(P) ==
  IF P = {} THEN 0
  ELSE LET p == CHOOSE q \in P : TRUE IN p.y + SumY(P \ {p})

\* turf.centroid: the mean of the vertices of the ring
centroid(region) ==
  LET P == getShell(region)
  IN Pt(SumX(P) \div Cardinality(P), SumY(P) \div Cardinality(P))

\* turf.area, in whole square metres piece by piece
RECURSIVE SumArea(_)
SumArea(cells) ==
  IF cells = {} THEN 0
  ELSE LET c == CHOOSE q \in cells : TRUE
       IN ((c.x1 - c.x0) \div Metre) * ((c.y1 - c.y0) \div Metre)
          + SumArea(cells \ {c})

area(region) ==
  SumArea({ c \in { Box(x, y, Min({v \in Xs(region) : v > x}),
                          Min({v \in Ys(region) : v > y})) :
                      x \in Xs(region) \ {Max(Xs(region))},
                      y \in Ys(region) \ {Max(Ys(region))} } :
              Covers(region, Pt(c.x0, c.y0), TRUE, TRUE) })

\* turf.buffer(turfPoly, -sb): every point whose distance to the outside is
\* sb or more, the corners taken square; the pieces left, none if the
\* region is eroded to nothing (the call returns undefined)
Shrink(r, sb) == Box(r.x0 + sb, r.y0 + sb, r.x1 - sb, r.y1 - sb)

Meet(r, q) ==
  r.x0 <= q.x1 /\ q.x0 <= r.x1 /\ r.y0 <= q.y1 /\ q.y0 <= r.y1

RECURSIVE Piece(_, _)
Piece(part, all) ==
  LET more == { q \in all : \E r \in part : Meet(r, q) }
  IN IF more = part THEN part ELSE Piece(more, all)

buffer(region, sb) ==
  LET left == { q \in {Shrink(r, sb) : r \in region} :
                  q.x0 < q.x1 /\ q.y0 < q.y1 }
  IN { Piece({r}, left) : r \in left }

\* turf.booleanPointInPolygon: the boundary is in the polygon
booleanPointInPolygon(p, region) ==
  \E r \in region :
    r.x0 <= p.x /\ p.x <= r.x1 /\ r.y0 <= p.y /\ p.y <= r.y1

\* turf.booleanWithin(rect, inset), polygon in polygon: the bounding box of
\* the first lies in the bounding box of the second and every vertex of the
\* first is a point of the second; the edges between them are not looked at
booleanWithin(rect, region) ==
  /\ Min(Xs(region)) <= rect.x0 /\ rect.x1 <= Max(Xs(region))
  /\ Min(Ys(region)) <= rect.y0 /\ rect.y1 <= Max(Ys(region))
  /\ \A p \in { Pt(rect.x0, rect.y0), Pt(rect.x1, rect.y0),
                Pt(rect.x1, rect.y1), Pt(rect.x0, rect.y1) } :
       booleanPointInPolygon(p, region)

---------------------------------------------------------------------------
(* The module layout of one segment                                        *)

\* ensureModuleDims: the sizes of module 1 are the fallback of a failed or
\* empty lookup (1.1 m by 1.7 m), those of module 2 a known model
\* (0.992 m by 1.65 m)
ensureModuleDims(m) ==
  IF m = 1
  THEN [width |-> (11 * Metre) \div 10, height |-> (17 * Metre) \div 10]
  ELSE [width |-> (992 * Metre) \div 1000,
        height |-> (165 * Metre) \div 100]

\* the buildable region: the ring inset by the setback, the largest piece
\* of it if the inset falls apart, the ring itself if the setback is not
\* positive or nothing is left of the ring
inset(seg) ==
  LET sb == meters(seg.setback)
      buff == buffer(seg.geometry, sb)
  IN IF sb <= 0 \/ buff = {} THEN seg.geometry
     ELSE IF Cardinality(buff) > 1
          THEN CHOOSE p \in buff : \A q \in buff : area(p) >= area(q)
          ELSE CHOOSE p \in buff : TRUE

\* the module and frame sizes and the steps between frames
Frame(seg, dims) ==
  LET isPortrait == seg.defaultOrientation = "Portrait"
      moduleW == IF isPortrait THEN dims.height ELSE dims.width
      moduleH == IF isPortrait THEN dims.width ELSE dims.height
      moduleSpacing == IF seg.moduleSpacing > 0
                       THEN meters(seg.moduleSpacing) ELSE DEFAULT_GAP
      sizeWide == IF seg.frameSizeWide > 1 THEN seg.frameSizeWide ELSE 1
      sizeUp == IF seg.frameSizeUp > 1 THEN seg.frameSizeUp ELSE 1
      frameW == sizeWide * moduleW + (sizeWide - 1) * moduleSpacing
      frameH == sizeUp * moduleH + (sizeUp - 1) * moduleSpacing
  IN [moduleW |-> moduleW, moduleH |-> moduleH,
      moduleSpacing |-> moduleSpacing,
      sizeWide |-> sizeWide, sizeUp |-> sizeUp,
      frameW |-> frameW, frameH |-> frameH,
      stepX |-> frameW + meters(seg.frameSpacing),
      stepY |-> frameH + meters(seg.rowSpacing)]

\* d * cos(bearing difference) for a module azimuth of 0: the east and the
\* north part of the way from the origin to a vertex
Proj(d) == IF d >= 0 THEN distance(d) ELSE 0 - distance(0 - d)

\* the oriented extents of the region and the corner the grid starts from
Extent(region) ==
  LET origin == centroid(region)
      px == { Proj(p.x - origin.x) : p \in getShell(region) }
      py == { Proj(p.y - origin.y) : p \in getShell(region) }
  IN [widthM |-> Max(px) - Min(px), heightM |-> Max(py) - Min(py),
      southWest |-> Pt(origin.x + Min(px), origin.y + Min(py))]

\* the gap before the first column
MarginX(align, leftoverX, stepX) ==
  CASE align = "center" -> (leftoverX % stepX) \div 2
    [] align = "right" -> leftoverX % stepX
    [] align = "justify" -> (leftoverX % stepX) \div 2
    [] OTHER -> 0

\* for (off = start; off <= span - half + 1e-6; off += step): the centres
\* of the frames along one axis (1e-6 m is an eighth of the unit)
Offsets(start, span, half, step) ==
  { off \in { start + k * step : k \in 0..(span \div step) } :
      8 * off <= 8 * (span - half) + 1 }

\* buildRotatedRect around the centre of module (r, c) of the frame whose
\* centre is xOff east and yOff north of the south-west corner
ModuleRect(f, southWest, xOff, yOff, r, c) ==
  LET left == southWest.x + xOff - f.frameW \div 2
      top == southWest.y + yOff + f.frameH \div 2
      cx == left + c * (f.moduleW + f.moduleSpacing) + f.moduleW \div 2
      cy == top - (r * (f.moduleH + f.moduleSpacing) + f.moduleH \div 2)
  IN Box(cx - f.moduleW \div 2, cy - f.moduleH \div 2,
         cx + f.moduleW \div 2, cy + f.moduleH \div 2)

\* the rectangles of the tiling loops, before the containment test
Tiling(seg, region) ==
  LET f == Frame(seg, ensureModuleDims(seg.module))
      e == Extent(region)
      leftoverX == IF e.widthM > f.frameW THEN e.widthM - f.frameW ELSE 0
      marginX == MarginX(seg.alignment, leftoverX, f.stepX)
  IN { ModuleRect(f, e.southWest, o[1], o[2], o[3], o[4]) :
         o \in Offsets(marginX + f.frameW \div 2, e.widthM,
                       f.frameW \div 2, f.stepX)
               \X Offsets(f.frameH \div 2, e.heightM,
                          f.frameH \div 2, f.stepY)
               \X (0..(f.sizeUp - 1)) \X (0..(f.sizeWide - 1)) }

\* the module rectangles of a segment on the modules layer: none without a
\* module or before its sizes are cached, else the rectangles of the tiling
\* that turf.booleanWithin finds within the buildable region
ModuleLayout(seg, dims) ==
  IF seg.module = 0 \/ seg.module \notin dims THEN {}
  ELSE { rect \in Tiling(seg, inset(seg)) :
           booleanWithin(rect, inset(seg)) }

---------------------------------------------------------------------------
(* Specification of the module layout                                      *)

\* a roof of 10 m by 6 m
RoofRing == {Box(0 - 5 * Metre, 0 - 3 * Metre, 5 * Metre, 3 * Metre)}

\* a field of 4 km by 3 km
FieldRing ==
  {Box(0 - 2 * Kilometre, 0 - (3 * Kilometre) \div 2,
       2 * Kilometre, (3 * Kilometre) \div 2)}

\* a field of about 3 km by 2 km with a slot half a metre wide cut into it
\* from the north down to 500 m from its south side
SlotRing ==
  {Box(0 - (3 * Kilometre) \div 2, 0 - Kilometre, 0 - Metre \div 4, Kilometre),
   Box(Metre \div 4, 0 - Kilometre,
       (3 * Kilometre) \div 2 + 2 * Metre, Kilometre),
   Box(0 - (3 * Kilometre) \div 2, 0 - Kilometre,
       (3 * Kilometre) \div 2 + 2 * Metre, 0 - Kilometre \div 2)}

LayRings == {RoofRing, FieldRing, SlotRing}

\* setbacks in feet: none, one that leaves every ring in one piece, one
\* that erodes the roof to nothing and splits the slotted field, one that
\* erodes the slotted field to nothing
LaySetbacks == {0, 1, 1000, 4000}

LaySegments ==
  [geometry : LayRings, setback : LaySetbacks, module : 0..2,
   defaultOrientation : {"Landscape", "Portrait"},
   moduleSpacing : 0..1, frameSpacing : 0..1, rowSpacing : {0},
   frameSizeWide : 1..2, frameSizeUp : 1..2,
   alignment : {"left", "right", "center", "justify"}]

\* one segment of the list and the cache of module sizes, before the layout
\* effect runs
InitLayout ==
  /\ Mounted(EmptyStore, FALSE, Unbounded, {TRUE})
  /\ lay \in [phase : {"segment"}, seg : LaySegments,
              moduleDims : {{}, {1, 2}}]
  /\ shadow = ShadowIdle /\ lookup = LookupIdle /\ scene = SceneIdle

\* the layout effect on the segment: the setback overlay and the module
\* rectangles
Layout ==
  /\ lay.phase = "segment"
  /\ \E region \in {inset(lay.seg)},
        kept \in {ModuleLayout(lay.seg, lay.moduleDims)} :
       lay' = [phase |-> "laid", seg |-> lay.seg,
               moduleDims |-> lay.moduleDims,
               setback |-> region, modules |-> kept,
               dropped |->
                 IF lay.seg.module = 0 \/ lay.seg.module \notin lay.moduleDims
                 THEN {} ELSE Tiling(lay.seg, region) \ kept]
  /\ UNCHANGED << edVars, shadow, lookup, scene >>

NextLayout == Layout

SpecLayout == InitLayout /\ [][NextLayout]_vars

---------------------------------------------------------------------------
(* The shadow effect                                                       *)

\* The ground is a row of cells of one metre along the shadow bearing (the
\* sun is taken in the south, the shadows fall to the north); a polygon is
\* the set of cells it covers and its area the number of them.  The ring
\* of every segment covers the cells 0 .. FootprintCells - 1.
FootprintCells == 2

\* a clock time "HH:mm"
Time(hh, mm) == [hh |-> hh, mm |-> mm]

\* parseHHmmToMinutes
parseHHmmToMinutes(t) == t.hh * 60 + t.mm

\* ts = `${hh}:${mm}` of the sample at minute m
TimeString(m) == Time(m \div 60, m % 60)

\* toDateAtTime(dateStr, timeStr): the minute of the analysis date
toDateAtTime(t) == t.hh * 60 + t.mm

\* sun altitudes, in degrees
Altitudes == {0 - 10, 0, 1, 45}

\* tan(sunAlt), as a ratio
Tan(alt) ==
  IF alt = 45 THEN [num |-> 1, den |-> 1] ELSE [num |-> 7, den |-> 400]

\* SunCalc.getPosition in its try block: the altitude, 0 when the lookup
\* throws
SunAlt(sun, dt) == IF sun[dt].ok THEN sun[dt].altitude ELSE 0

\* the sun is above the horizon
NotBelowHorizon(sunAlt) == sunAlt >= 0
SunUp(sunAlt) == sunAlt > 0

\* segHeightM = (feet + rackingFeet + parapetFeet) * 0.3048
SegHeightM(seg) == meters(seg.feet)

\* rawLen = segHeightM / Math.tan(sunAlt)
RawLen(seg, sunAlt) ==
  (SegHeightM(seg) * Tan(sunAlt).den) \div Tan(sunAlt).num

\* segShadowLen = max(0, min(500, rawLen)) of buildTurfPolysAtTime
UnclampedLen(seg, sunAlt) == RawLen(seg, sunAlt)
SegShadowLen(seg, sunAlt) ==
  LET rawLen == RawLen(seg, sunAlt)
  IN IF rawLen > 500 * Metre THEN 500 * Metre
     ELSE IF rawLen < 0 THEN 0 ELSE rawLen

\* segShadowLen = max(0, min(500, rawLen)) of drawAtTime
DrawShadowLen(seg, sunAlt) ==
  LET rawLen == RawLen(seg, sunAlt)
  IN IF rawLen > 500 * Metre THEN 500 * Metre
     ELSE IF rawLen < 0 THEN 0 ELSE rawLen

\* the base, the ring shifted by k cells, and the quads of the two edges
PolysAt(k) ==
  << 0..(FootprintCells - 1),
     k..(k + FootprintCells - 1),
     0..(k + FootprintCells - 1),
     0..(k + FootprintCells - 1) >>

\* the polygons of the segment at a time: the base, the ring shifted by the
\* shadow length, and one quad per edge of the ring from the edge to the
\* shifted edge; none when the sun is not up or the segment has no height
ShadowPolys(seg, sun, ts) ==
  LET sunAlt == SunAlt(sun, toDateAtTime(ts))
      k == SegShadowLen(seg, sunAlt) \div Metre
  IN IF ~SunUp(sunAlt) \/ SegHeightM(seg) <= 0 THEN << >>
     ELSE PolysAt(k)

\* the polygons drawAtTime adds for the sample
DrawnPolys(seg, sun, ts) ==
  LET sunAlt == SunAlt(sun, toDateAtTime(ts))
      k == DrawShadowLen(seg, sunAlt) \div Metre
  IN IF ~SunUp(sunAlt) \/ SegHeightM(seg) <= 0 THEN << >>
     ELSE PolysAt(k)

\* buildTurfPolysAtTime
buildTurfPolysAtTime(seg, sun, ts) == ShadowPolys(seg, sun, ts)

\* drawAtTime: the polygons added to the shadows layer for the sample
drawAtTime(seg, sun, ts) ==
  { [minute |-> parseHHmmToMinutes(ts), cells |-> DrawnPolys(seg, sun, ts)[i]] :
      i \in DOMAIN DrawnPolys(seg, sun, ts) }

\* turf.union(agg, p) when it returns
FirstOnly(agg, p) == agg
union(agg, p) == agg \cup p

\* for (const p of polys) try { agg = agg ? turf.union(agg, p) : p } catch {}
\* from polygon i on; a union that throws leaves agg as it is.  The null
\* aggregate is the empty set.
RECURSIVE UnionPolys(_, _, _, _, _)
UnionPolys(agg, polys, m, i, throws) ==
  IF i > Len(polys) THEN agg
  ELSE UnionPolys(IF agg = {} THEN polys[i]
                  ELSE IF << m, i >> \in throws THEN agg
                  ELSE union(agg, polys[i]),
                  polys, m, i + 1, throws)

\* the first loop over the samples, from minute m to minutesEnd
RECURSIVE Aggregate(_, _, _, _, _, _)
Aggregate(agg, seg, sun, throws, m, minutesEnd) ==
  IF m > minutesEnd THEN agg
  ELSE Aggregate(UnionPolys(agg, buildTurfPolysAtTime(seg, sun, TimeString(m)),
                            m, 1, throws),
                 seg, sun, throws, m + 1, minutesEnd)

\* the window of the segment, swapped if the end is before the start
WindowAsGiven(seg) ==
  [minutesStart |-> parseHHmmToMinutes(seg.startTime),
   minutesEnd |-> parseHHmmToMinutes(seg.endTime)]
Window(seg) ==
  LET minutesStart == parseHHmmToMinutes(seg.startTime)
      minutesEnd == parseHHmmToMinutes(seg.endTime)
  IN IF minutesEnd < minutesStart
     THEN [minutesStart |-> minutesEnd, minutesEnd |-> minutesStart]
     ELSE [minutesStart |-> minutesStart, minutesEnd |-> minutesEnd]

\* what the effect adds to the shadows layer for one segment: the
\* aggregate, then the polygons of every sample; built are the polygons
\* the first loop hands to the aggregate, by sample
SegmentShadows(seg, sun, throws) ==
  LET w == Window(seg)
  IN [agg |-> Aggregate({}, seg, sun, throws, w.minutesStart, w.minutesEnd),
      draws |-> UNION { drawAtTime(seg, sun, TimeString(m)) :
                          m \in w.minutesStart..w.minutesEnd },
      built |-> [m \in w.minutesStart..w.minutesEnd |->
                   buildTurfPolysAtTime(seg, sun, TimeString(m))]]

---------------------------------------------------------------------------
(* Specification of the shadow effect                                      *)

ShadowTimes == {Time(9, 59), Time(10, 0), Time(10, 1)}
ShadowMinutes == { parseHHmmToMinutes(t) : t \in ShadowTimes }

\* the answers of the sun position lookup, by minute
SunAnswers ==
  {[ok |-> FALSE, altitude |-> 0]}
    \cup {[ok |-> TRUE, altitude |-> a] : a \in Altitudes}

\* the turf.union calls that throw, by minute and index of the polygon:
\* none, one of them, or all
ThrowSets ==
  {{}, ShadowMinutes \X (1..4)}
    \cup {{<< m, i >>} : m \in ShadowMinutes, i \in 2..3}

\* the first segment of the list: its window and its height in feet
ShadowSegments ==
  [startTime : ShadowTimes, endTime : ShadowTimes, feet : {0, 10, 100}]

\* the second segment
LastSegment ==
  [startTime |-> Time(10, 0), endTime |-> Time(10, 1), feet |-> 10]

InitShadow ==
  /\ Mounted(EmptyStore, FALSE, Unbounded, {TRUE})
  /\ lay = LayIdle /\ lookup = LookupIdle /\ scene = SceneIdle
  /\ shadow \in [phase : {"segments"},
                 segs : {<< s, LastSegment >> : s \in ShadowSegments},
                 sun : [ShadowMinutes -> SunAnswers],
                 throws : ThrowSets]

\* the shadow effect with the shadows shown: every segment of the list in
\* turn
ShadowEffectRun ==
  /\ shadow.phase = "segments"
  /\ \E out \in {[i \in DOMAIN shadow.segs |->
                    SegmentShadows(shadow.segs[i], shadow.sun,
                                   shadow.throws)]} :
       shadow' = [phase |-> "drawn", segs |-> shadow.segs,
                  sun |-> shadow.sun, throws |-> shadow.throws,
                  layer |-> out]
  /\ UNCHANGED << edVars, lay, lookup, scene >>

NextShadow == ShadowEffectRun

SpecShadow == InitShadow /\ [][NextShadow]_vars

---------------------------------------------------------------------------
(* Properties of the draw tool                                             *)

\* a snap session ends the draw at most once, and once if the closing snap
\* was active at one of its moves
SnapRunOnce == run.on => run.ends <= 1 /\ (run.snap => run.ends = 1)

\* the step clears the autoClosing latch
LatchCleared == autoClosing /\ ~autoClosing'

\* C1 (as amended): over consecutive mouse moves with the cursor within the
\* snap radius of the first vertex the draw is ended at most once, by the
\* first of these moves at which the geometry in progress has more than two
\* coordinates; the autoClosing latch is cleared only by a mouse move at which
\* the closing snap is not active (the cursor is outside the radius, or the
\* geometry in progress has at most two coordinates).
C1_AutoCloseOnce ==
  /\ []SnapRunOnce
  /\ [][LatchCleared =>
          \E p \in Pos : MouseMove(p) /\ ~ClosingSnap(St, p)]_vars

\* the cursor hovers on the first vertex for several moves after the one
\* that closed the polygon
C1_Witness == run.on /\ run.snap /\ run.ends = 1 /\ run.moves >= MaxMoves

\* C1 (as stated): ... the draw is ended exactly once and the latch is cleared
\* only by a move at which the cursor is outside the snap radius.
C1_LatchOnlyOutsideRadius ==
  /\ [](run.on => run.ends = 1)
  /\ [][LatchCleared =>
          \E p \in Pos : MouseMove(p) /\ ~InRadius(St, p)]_vars

\* the row of every create call in flight is a closed ring
ClosedRing(g) == g.n > 2 /\ g.last = g.first

\* C2: a create call is issued only when a polygon is closed; ending a draw
\* with the control key, with Clear Shape or by leaving the draw tool issues
\* no create call.
C2_CancelCreatesNothing ==
  [][KeyDown \/ ClearShape \/ PanelBack => creates' = creates]_vars

\* a create call in flight whose ring was never closed
C2_Witness ==
  \E i \in DOMAIN creates : ~ClosedRing(creates[i].row.geometry)

\* C3: while a create call is in flight (isSavingNewSegment), no draw is in
\* progress: none can start and no vertex can be committed.
C3_NoDrawWhileSaving ==
  isSavingNewSegment /\ creates # << >> => cur = NoGeom

\* a second vertex is committed while the create call is in flight
C3_Witness ==
  isSavingNewSegment /\ creates # << >> /\ cur.clicks >= 2

---------------------------------------------------------------------------
(* Properties of the auto-save                                             *)

\* the attributes sent by the debounced update
Attrs(seg) == [sh |-> seg.sh, st |-> seg.st, module |-> seg.module]

\* the edits of the current burst have produced no update call before the
\* debounce delay has passed since the last of them, and one when it has
\* (the timeout that issues it may be due at this instant)
BurstFlushedOnce ==
  /\ burst.calls <= 1
  /\ burst.since < DebounceTicks => burst.calls = 0
  /\ burst.since >= DebounceTicks =>
       \/ burst.calls = 1
       \/ timer.left = 0 /\ timer.seg.id = burst.id

\* C5: an attribute edit changes the in-memory segment at once; k >= 1 edits
\* of the selected segment less than 1.5 s apart produce exactly one update
\* call, issued only after 1.5 s without a further edit, which carries the
\* latest value of every attribute.
C5_OneCallAfterQuiet ==
  /\ [](burst.id # 0 => BurstFlushedOnce)
  /\ [][\A f \in Fields, v \in 0..2 :
          EditAttr(f, v) => Find(fieldSegments', selectedSegmentId)[f] = v]_vars
  /\ [][TimerFire =>
          Attrs(timer.seg) = Attrs(Find(fieldSegments, timer.seg.id))]_vars

\* 1.5 s after an edit no update call has been issued and no timeout is
\* pending
C5_Witness ==
  /\ burst.edits >= 1 /\ burst.since >= DebounceTicks /\ burst.calls = 0
  /\ timer = NoTimer /\ burst.id \in Ids(fieldSegments)

\* C6: every attribute edit of a segment that is not deleted is flushed to
\* the store with the segment's latest values: as long as an edit has not
\* been sent, the timeout that will send the segment's values is pending,
\* whatever is selected.
C6_PendingWriteKept ==
  \A id \in unsaved :
    id \in Ids(fieldSegments) =>
      timer.left >= 0 /\ Attrs(timer.seg) = Attrs(Find(fieldSegments, id))
                      /\ timer.seg.id = id

\* the selection was cleared after an edit: the edit is not sent and nothing
\* is pending
C6_Witness ==
  /\ unsaved # {} /\ unsaved \subseteq Ids(fieldSegments)
  /\ timer = NoTimer /\ selectedSegmentId = 0 /\ ev.type = "deselect"

---------------------------------------------------------------------------
(* Properties of deletion                                                  *)

Others(segs, id) == SelectSeq(segs, LAMBDA x : x.id # id)

\* C7: when the delete call of segment A fails, A is back in the list and
\* every other segment's presence and attributes are as they were just
\* before the failure was reported.
C7_RollbackRestoresOnlyA ==
  [][\A i \in DOMAIN deletes :
       DeleteResolve(i, TRUE) =>
         /\ deletes[i].id \in Ids(fieldSegments')
         /\ Others(fieldSegments', deletes[i].id)
              = Others(fieldSegments, deletes[i].id)]_vars

\* a failed delete has been rolled back while an edit of another segment,
\* made after the delete was issued and still in the panel's list before
\* the answer, is in the list no more
C7_Witness ==
  /\ ev.type = "deleteFailed"
  /\ \E id \in unsaved :
       id # ev.id /\ id \in Ids(fieldSegments)
       /\ Find(fieldSegments, id).sh = InitRow(id).sh
       /\ Find(fieldSegments, id).st = DefaultStart
       /\ Find(fieldSegments, id).module = InitRow(id).module

\* the ids that have something on a layer of the map (the labels of a
\* drawing in progress are tagged with a negative id)
Artifacts ==
  DOMAIN segmentLayer \cup outlineLayer \cup wallsLayer \cup shadowsLayer
    \cup setbackLayer \cup modulesLayer \cup { x \in labelLayer : x > 0 }

\* C9: no layer holds a fill or outline polygon, wall, shadow, label or
\* vertex marker, setback overlay or module rectangle of a segment that is
\* not in the local list.
C9_NoOrphanArtifacts == Artifacts \subseteq Ids(fieldSegments)

\* segment 1, which had walls, a shadow and module rectangles, is deleted and
\* the other segment still has its polygons
C9_Witness ==
  /\ ev = Ev("delete", 1) /\ 1 \notin Ids(fieldSegments)
  /\ 1 \in moduleDims /\ 2 \in DOMAIN segmentLayer /\ 2 \in labelLayer

---------------------------------------------------------------------------
(* Properties of shape editing                                             *)

GeometryCall(id, g) ==
  UpdateCall(id, "geometry",
             [NoSeg EXCEPT !.id = id, !.geometry = g, !.area = GetArea(g)], 1)

\* the step writes the ring g and its area to the segment id of the list,
\* and its last call to the store is the update of both
RingWritten(id, g) ==
  /\ Find(fieldSegments', id).geometry = g
  /\ Find(fieldSegments', id).area = GetArea(g)
  /\ updates' # << >>
  /\ updates'[Len(updates')] = GeometryCall(id, g)

\* C8: Done Editing writes, in the same step, the ring as the last vertex
\* drag of the segment left it, with the area computed from it, to the list
\* and to the store.
C8_DoneWritesDraggedRing ==
  [][EndEdit /\ dragRing.id = selectedSegmentId /\ dragRing.dragged
       => RingWritten(dragRing.id, dragRing.ring)]_vars

\* after a drag and an attribute edit of the segment, Done Editing has
\* written a ring that is not the one the drag left
C8_Witness ==
  /\ ev.type = "endEdit" /\ dragRing.id = ev.id /\ dragRing.dragged
  /\ dragRing.edited
  /\ ev.id \in Ids(fieldSegments)
  /\ Find(fieldSegments, ev.id).geometry # dragRing.ring

---------------------------------------------------------------------------
(* Properties of the module layout                                         *)

\* the rectangle lies in the region: in one of its maximal rectangles
Inside(rect, region) ==
  \E m \in region :
    m.x0 <= rect.x0 /\ rect.x1 <= m.x1 /\ m.y0 <= rect.y0 /\ rect.y1 <= m.y1

\* the rectangle has the size of a module of the segment
WholeModule(rect, seg) ==
  LET f == Frame(seg, ensureModuleDims(seg.module))
  IN rect.x1 - rect.x0 = f.moduleW /\ rect.y1 - rect.y0 = f.moduleH

\* C10: module rectangles are on the layer only for a segment with a
\* module whose sizes are cached, and every rectangle on the layer has the
\* full size of a module and lies wholly in the buildable region of the
\* segment (a rectangle that crosses its boundary is not kept).
C10_KeptInsideBuildable ==
  lay.phase = "laid" =>
    /\ lay.modules # {} =>
         lay.seg.module # 0 /\ lay.seg.module \in lay.moduleDims
    /\ \A rect \in lay.modules :
         WholeModule(rect, lay.seg) /\ Inside(rect, lay.setback)

\* a layout that keeps rectangles and drops others
C10_Witness ==
  lay.phase = "laid" /\ lay.modules # {} /\ lay.dropped # {}

\* every point of the rectangle is sb or more away from the boundary of the
\* ring (the corners of the clearance taken square)
Clear(rect, ring, sb) == Inside(rect, {Shrink(m, sb) : m \in ring})

\* C11: with a positive setback no module rectangle on the layer is closer
\* than the setback to the boundary of the ring of the segment, also for a
\* ring that has no point that far from its boundary.
C11_SetbackClearance ==
  lay.phase = "laid" /\ lay.seg.setback > 0 =>
    \A rect \in lay.modules :
      Clear(rect, lay.seg.geometry, meters(lay.seg.setback))

\* a ring eroded to nothing by its setback, laid out with modules
C11_Witness ==
  /\ lay.phase = "laid" /\ lay.seg.setback > 0
  /\ buffer(lay.seg.geometry, meters(lay.seg.setback)) = {}
  /\ lay.modules # {}

\* a rectangular segment laid out with setback 0, frames of one module and
\* no frame or row spacing, its module sizes cached
PlainRectangle ==
  /\ lay.phase = "laid"
  /\ Cardinality(lay.seg.geometry) = 1
  /\ lay.seg.setback = 0
  /\ lay.seg.frameSizeWide = 1 /\ lay.seg.frameSizeUp = 1
  /\ lay.seg.frameSpacing = 0 /\ lay.seg.rowSpacing = 0
  /\ lay.seg.module # 0 /\ lay.seg.module \in lay.moduleDims

\* C12: on a rectangular segment of W by H, with setback 0, frames of one
\* module of w by h and no frame or row spacing, the number of module
\* rectangles is floor(W/w) * floor(H/h), whatever the alignment.
C12_PackerCount ==
  PlainRectangle =>
    LET ring == CHOOSE r \in lay.seg.geometry : TRUE
        f == Frame(lay.seg, ensureModuleDims(lay.seg.module))
    IN Cardinality(lay.modules)
         = ((ring.x1 - ring.x0) \div f.moduleW)
             * ((ring.y1 - ring.y0) \div f.moduleH)

\* such a segment with module rectangles on the layer
C12_Witness == PlainRectangle /\ lay.modules # {}

---------------------------------------------------------------------------
(* Properties of the shadow effect                                         *)

\* the minutes sampled for the segment
Samples(seg) == Window(seg).minutesStart..Window(seg).minutesEnd

\* the cells in shadow at the sample
InstantShadow(seg, sun, m) ==
  UNION { ShadowPolys(seg, sun, TimeString(m))[i] :
            i \in DOMAIN ShadowPolys(seg, sun, TimeString(m)) }

\* no union of a polygon of the sample has thrown
Unioned(m, throws) == \A i \in 1..4 : << m, i >> \notin throws

Dark(sun, m) == ~sun[m].ok \/ sun[m].altitude <= 0

\* C14: at a sample where the sun altitude is 0 or less, or where the sun
\* position lookup fails, no polygon of the segment is drawn and none goes
\* into its aggregate; every other sample of every segment that has a
\* height is drawn.
C14_NoShadowWithoutSun ==
  shadow.phase = "drawn" =>
    \A s \in DOMAIN shadow.segs :
      /\ \A d \in shadow.layer[s].draws : ~Dark(shadow.sun, d.minute)
      /\ shadow.layer[s].agg
           \subseteq UNION { d.cells : d \in shadow.layer[s].draws }
      /\ \A m \in Samples(shadow.segs[s]) :
           ~Dark(shadow.sun, m) /\ shadow.segs[s].feet > 0 =>
             \E d \in shadow.layer[s].draws : d.minute = m

\* a window with a sample below the horizon, a sample whose lookup failed
\* and a sample with a shadow, and the second segment drawn as well
C14_Witness ==
  /\ shadow.phase = "drawn"
  /\ \E m, n \in Samples(shadow.segs[1]) :
       /\ ~shadow.sun[m].ok
       /\ shadow.sun[n].ok /\ shadow.sun[n].altitude < 0
  /\ shadow.layer[1].draws # {} /\ shadow.layer[1].agg # {}
  /\ shadow.layer[2].draws # {}

---------------------------------------------------------------------------
(* Properties of snap-to-close                                             *)

\* the step is a mouse move that finds the closing snap (the highlight, the
\* preview moved to the start and, once per session, the end of the draw)
SnapByMove == \E p \in Pos : MouseMove(p) /\ ClosingSnap(St, p)

\* the step is a mousedown on the start marker that ends the draw
SnapByStartMarker == StartMarkerDown /\ cur # NoGeom /\ cur' = NoGeom

\* the step is a click whose new vertex ends the draw
SnapByVertex == MapClick /\ cur # NoGeom /\ cur' = NoGeom

\* C15: snap-to-close takes effect (by a move of the cursor, by a mousedown
\* on the start marker, by a newly committed vertex) only when the ring in
\* progress has three committed vertices or more.
C15_NoSnapBelowThreeVertices ==
  [][/\ SnapByMove \/ SnapByStartMarker => cur.clicks >= 3
     /\ SnapByVertex => cur.clicks + 1 >= 3]_vars

\* a draw ended by the snap with two committed vertices: the ring sent to
\* the store has three coordinates, the last one the first again
C15_Witness ==
  /\ run.on /\ run.snap /\ run.ends = 1
  /\ creates # << >>
  /\ creates[Len(creates)].row.geometry.n = 3
  /\ creates[Len(creates)].row.geometry.last
       = creates[Len(creates)].row.geometry.first

\* the ring of the create call issued last
LastRing(cs) == cs[Len(cs)].row.geometry

\* the step ends the draw in progress and sends its ring to the store
DrawCompleted == cur # NoGeom /\ cur' = NoGeom /\ Len(creates') > Len(creates)

\* C16: when a draw is completed by snap-to-close, by a move of the cursor
\* into the snap radius or by a newly committed vertex within it, the last
\* point of the ring sent as the geometry of the new segment is vertex 0.
C16_SnapClosesOnFirstVertex ==
  [][(SnapByMove \/ SnapByVertex) /\ DrawCompleted
       => /\ LastRing(creates').first = cur.first
          /\ LastRing(creates').last = cur.first]_vars

\* a draw completed by the snap while the preview was elsewhere: the ring
\* in flight ends on its first vertex
C16_Witness ==
  /\ run.on /\ run.snap /\ run.ends = 1
  /\ cur = NoGeom /\ isSavingNewSegment
  /\ creates # << >>
  /\ LastRing(creates).last = LastRing(creates).first
  /\ mouse = LastRing(creates).first


---------------------------------------------------------------------------
(* Properties of the control key                                           *)

\* while the key is held the tool is disabled and nothing is in progress
CtrlDisables == isCtrlDown => ~toolEnabled /\ cur = NoGeom

\* a step taken with the key held starts no draw and adds no vertex
NoDrawWhileCtrl ==
  isCtrlDown /\ isCtrlDown' => cur' = NoGeom /\ drawSeq' = drawSeq

\* the key is released, or the window loses focus, with the draw tool
\* selected: the tool is enabled and its mousemove handler attached
ReleaseEnables ==
  KeyUp /\ activeTool = "draw"
    => activeTool' = "draw" /\ toolEnabled' /\ moveAttached'

\* C17: while the control key is held down the draw tool is disabled, so no
\* draw starts and no vertex is added; after the key is released (or the
\* window loses focus) with the draw tool still selected, drawing is
\* enabled again.
C17_CtrlSuspendsDrawing ==
  /\ []CtrlDisables
  /\ [][NoDrawWhileCtrl]_vars
  /\ [][ReleaseEnables]_vars

\* the key is held with the draw tool selected, after a draw was started
C17_Witness ==
  /\ activeTool = "draw" /\ isCtrlDown
  /\ ~toolEnabled /\ ~moveAttached
  /\ drawSeq > 0 /\ cur = NoGeom


---------------------------------------------------------------------------
(* Properties of a failed create                                           *)

\* C18: when the create call of a newly drawn segment fails, the failure is
\* surfaced to the user: the saving status of the editor is 'error'.
C18_CreateFailureSurfaced ==
  ev.type = "createFailed" => savingStatus = "error"

\* a create call has just failed and the handler has finished
C18_Witness ==
  /\ ev.type = "createFailed"
  /\ ~isSavingNewSegment /\ activeTool = "none"
  /\ savingStatus # "error"


---------------------------------------------------------------------------
(* Properties of the update calls in flight                                *)

\* the update calls in flight for segment id
InFlight(id) == {i \in DOMAIN updates : updates[i].id = id}

\* C19: at any time at most one update call per segment is in flight: the
\* debounced attribute save and the geometry save of a shape edit overlap
\* neither with each other nor with an earlier, unanswered save of the same
\* segment.
C19_OneUpdateInFlight ==
  \A id \in SegIds : Cardinality(InFlight(id)) <= 1

\* two update calls of one segment are in flight together
C19_Witness ==
  \E i, j \in DOMAIN updates :
    i < j /\ updates[i].id = updates[j].id


---------------------------------------------------------------------------
(* ensureModuleDims: the dimensions of a module                            *)

\* JavaScript values: lengths in millimetres, areas in square millimetres
Number(v) == [t |-> "number", v |-> v]
NaN == [t |-> "NaN", v |-> 0]
Infinity == [t |-> "Infinity", v |-> 0]
undefined == [t |-> "undefined", v |-> 0]
Text == [t |-> "string", v |-> 0]

\* typeof x === 'number' && isFinite(x)
IsFiniteNumber(x) == x.t = "number"

\* mod?.area && isFinite(mod.area)
UsableArea(a) == a.t = "number" /\ a.v # 0

\* the largest r in lo..hi with r * r <= n
RECURSIVE Root(_, _, _)
Root(n, lo, hi) ==
  IF lo >= hi THEN lo
  ELSE LET mid == (lo + hi + 1) \div 2
       IN IF mid * mid <= n THEN Root(n, mid, hi) ELSE Root(n, lo, mid - 1)

\* Math.sqrt, rounded down to the millimetre
sqrt(x) ==
  IF x.t # "number" THEN x
  ELSE IF x.v < 0 THEN NaN
  ELSE Number(Root(x.v, 0, 40000))

\* area * ratio with ratio = 1.66
TimesRatio(a) == Number((a.v * 166) \div 100)

\* area / height, rounded down to the millimetre
Quotient(a, h) ==
  IF h.t # "number" \/ h.v = 0 THEN NaN ELSE Number(a.v \div h.v)

DefaultWidth == 1100
DefaultHeight == 1700
KnownWidth == 992
KnownHeight == 1650

Entry(w, h) == [width |-> w, height |-> h]
NoEntry == Entry(undefined, undefined)
DefaultEntry == Entry(Number(DefaultWidth), Number(DefaultHeight))

\* the catalog row of the module: none, or a row whose name is or is not
\* in the table of known models
NoModule == [present |-> FALSE, known |-> FALSE, area |-> undefined]

\* the final guards
Guarded(wid, len) ==
  Entry(IF IsFiniteNumber(wid) THEN wid ELSE Number(DefaultWidth),
        IF IsFiniteNumber(len) THEN len ELSE Number(DefaultHeight))

\* the fallbacks for parsed dimensions that are missing or invalid
Fallback(wid, len, mod) ==
  IF mod.present /\ mod.known
  THEN Entry(Number(KnownWidth), Number(KnownHeight))
  ELSE IF mod.present /\ UsableArea(mod.area)
  THEN LET height == sqrt(TimesRatio(mod.area))
           width == Quotient(mod.area, height)
       IN Entry(width, height)
  ELSE Entry(wid, len)

\* ensureModuleDims(moduleId): the cache entry of the module afterwards.
\* cached is the entry before the call, error the error of the lookup of
\* the module's details, parsed their content, mod the catalog row.
EnsureModuleDims(cached, error, parsed, mod) ==
  IF cached # NoEntry THEN cached
  ELSE IF error THEN DefaultEntry
  ELSE LET len == parsed.length_m
           wid == parsed.width_m
           e == IF ~IsFiniteNumber(len) \/ ~IsFiniteNumber(wid)
                THEN Fallback(wid, len, mod)
                ELSE Entry(wid, len)
       IN Guarded(e.width, e.height)

---------------------------------------------------------------------------
(* Specification of ensureModuleDims                                       *)

JsValues ==
  {undefined, Text, NaN, Infinity,
   Number(0 - 1650), Number(0), Number(992), Number(2000)}

Areas ==
  {undefined, NaN, Infinity,
   Number(0 - 1660000), Number(0), Number(1660000), Number(2000000)}

CatalogRows ==
  {NoModule} \cup [present : {TRUE}, known : BOOLEAN, area : Areas]

\* a call for a module, with or without an entry in the cache
InitDims ==
  /\ Mounted(EmptyStore, FALSE, Unbounded, {TRUE})
  /\ lay = LayIdle /\ shadow = ShadowIdle /\ scene = SceneIdle
  /\ lookup \in [phase : {"call"},
                 cached : {NoEntry, DefaultEntry},
                 error : BOOLEAN,
                 parsed : [length_m : JsValues, width_m : JsValues],
                 mod : CatalogRows]

EnsureDims ==
  /\ lookup.phase = "call"
  /\ lookup' = [phase |-> "cached",
                cached |-> lookup.cached,
                error |-> lookup.error,
                parsed |-> lookup.parsed,
                mod |-> lookup.mod,
                entry |-> EnsureModuleDims(lookup.cached, lookup.error,
                                           lookup.parsed, lookup.mod)]
  /\ UNCHANGED << edVars, lay, shadow, scene >>

NextDims == EnsureDims

SpecDims == InitDims /\ [][NextDims]_vars

---------------------------------------------------------------------------
(* Properties of ensureModuleDims                                          *)

Positive(x) == x.t = "number" /\ x.v > 0

\* the first applicable step of the chain for a call that looks the module up
ParsedApplies(l) ==
  IsFiniteNumber(l.parsed.length_m) /\ IsFiniteNumber(l.parsed.width_m)
KnownApplies(l) == l.mod.present /\ l.mod.known
AreaApplies(l) == l.mod.present /\ Positive(l.mod.area)

Inferred(a) ==
  Entry(Quotient(a, sqrt(TimesRatio(a))), sqrt(TimesRatio(a)))

FirstApplicable(l) ==
  IF l.error THEN DefaultEntry
  ELSE IF ParsedApplies(l)
  THEN Entry(l.parsed.width_m, l.parsed.length_m)
  ELSE IF KnownApplies(l)
  THEN Entry(Number(KnownWidth), Number(KnownHeight))
  ELSE IF AreaApplies(l) THEN Inferred(l.mod.area)
  ELSE DefaultEntry

Resolved == lookup.phase = "cached" /\ lookup.cached = NoEntry

\* C20: the resolution of the module dimensions never fails: for every
\* content of the parsed details and of the catalog row, and for lookup
\* errors, the call ends with a cache entry whose width and height are finite
\* and strictly positive, taken from the first applicable step of the chain
\* parsed dimensions, known models, inference from the area, default.
C20_DimsPositiveFromChain ==
  Resolved =>
    /\ Positive(lookup.entry.width) /\ Positive(lookup.entry.height)
    /\ lookup.entry = FirstApplicable(lookup)

\* parsed dimensions of 0 by 992 mm were looked up without error and cached
C20_Witness ==
  /\ Resolved /\ ~lookup.error
  /\ lookup.parsed = [length_m |-> Number(0), width_m |-> Number(992)]
  /\ lookup.entry = Entry(Number(992), Number(0))


---------------------------------------------------------------------------
(* Properties of the alignment                                             *)

\* the rectangles of the tiling loops of the layout, kept or not
Columns == lay.modules \cup lay.dropped

\* the first column starts at FirstEdge, the last one ends at LastEdge
FirstEdge == Min({r.x0 : r \in Columns})
LastEdge == Max({r.x1 : r \in Columns})

\* the oriented extent of the buildable region along the packing X axis
NearEdge == Min(Xs(lay.setback))
FarEdge == Max(Xs(lay.setback))

\* equal up to the rounding of a halved length to the unit of the model
Close(a, b) == IF a >= b THEN a - b <= 2 ELSE b - a <= 2

\* a layout with cached module sizes of a region at least one frame wide
WideEnough ==
  /\ lay.phase = "laid"
  /\ lay.seg.module # 0 /\ lay.seg.module \in lay.moduleDims
  /\ FarEdge - NearEdge
       >= Frame(lay.seg, ensureModuleDims(lay.seg.module)).frameW

\* C21: for an oriented extent at least one frame wide, with 'right' the far
\* edge of the last column is the far edge of the extent, with 'center' the
\* gap before the first column equals the gap after the last one, with
\* 'left' the first column starts at the near edge, and 'justify' gives the
\* columns of 'center'.
C21_AlignmentPolicy ==
  WideEnough =>
    /\ Columns # {}
    /\ lay.seg.alignment = "right" => Close(LastEdge, FarEdge)
    /\ lay.seg.alignment = "left" => Close(FirstEdge, NearEdge)
    /\ lay.seg.alignment \in {"center", "justify"}
         => Close(FirstEdge - NearEdge, FarEdge - LastEdge)
    /\ lay.seg.alignment = "justify"
         => Columns = Tiling([lay.seg EXCEPT !.alignment = "center"],
                             lay.setback)

\* a field aligned right whose last column ends short of the far edge
C21_Witness ==
  /\ WideEnough /\ lay.seg.alignment = "right"
  /\ Columns # {}
  /\ LastEdge < FarEdge - Metre


---------------------------------------------------------------------------
(* Properties of the sampled window                                        *)

\* every whole minute from the earlier to the later of the two times
Between(seg) ==
  LET a == parseHHmmToMinutes(seg.startTime)
      b == parseHHmmToMinutes(seg.endTime)
  IN { m \in ShadowMinutes : (a <= m /\ m <= b) \/ (b <= m /\ m <= a) }

\* the segment with its two times swapped
Swapped(seg) ==
  [seg EXCEPT !.startTime = seg.endTime, !.endTime = seg.startTime]

\* the cells in shadow at one of the minutes
ShadowOver(seg, sun, minutes) ==
  UNION { InstantShadow(seg, sun, m) : m \in minutes }

---------------------------------------------------------------------------
(* The walls and the labels of the segments                                *)

\* isNaN(v)
isNaN(v) == v.t = "NaN"

\* a.x === b.x && a.y === b.y
SamePoint(a, b) ==
  /\ ~isNaN(a.x) /\ ~isNaN(b.x) /\ a.x = b.x
  /\ ~isNaN(a.y) /\ ~isNaN(b.y) /\ a.y = b.y

Coordinate(x, y) == [x |-> x, y |-> y]

\* Polygon.getShell() of Geometry.fromJSON(geometry): the ring of the
\* GeoJSON without its closing coordinate
PolygonShell(ring) ==
  IF Len(ring) > 0 /\ SamePoint(ring[1], ring[Len(ring)])
  THEN SubSeq(ring, 1, Len(ring) - 1)
  ELSE ring

\* z and paraZ of the walls effect
WallZ(segment) == meters(segment.surfaceHeight)
ParaZ(segment) ==
  IF meters(segment.parapetHeight) > 0 THEN meters(segment.parapetHeight)
  ELSE 0

\* the polygon with the corners (a, top), (b, top), (b, bottom), (a, bottom)
Quad(a, b, top, bottom) == [a |-> a, b |-> b, top |-> top, bottom |-> bottom]

\* the body of the loop over the edges of the shell, from edge i on
RECURSIVE EdgeWalls(_, _, _, _)
EdgeWalls(layer, segment, shell, i) ==
  IF i > Len(shell) THEN layer
  ELSE LET a == shell[i]
           b == shell[(i % Len(shell)) + 1]
           z == WallZ(segment)
           paraZ == ParaZ(segment)
           wall == Append(layer, Quad(a, b, z, 0))
       IN IF SamePoint(a, b) THEN EdgeWalls(layer, segment, shell, i + 1)
          ELSE EdgeWalls(IF paraZ > 0
                         THEN Append(wall, Quad(a, b, z + paraZ, z))
                         ELSE wall,
                         segment, shell, i + 1)

\* fieldSegments.forEach of the walls effect, from segment k on
RECURSIVE SegmentWalls(_, _, _)
SegmentWalls(layer, segs, k) ==
  IF k > Len(segs) THEN layer
  ELSE LET shell == PolygonShell(segs[k].geometry)
       IN SegmentWalls(IF Len(shell) < 2 THEN layer
                       ELSE EdgeWalls(layer, segs[k], shell, 1),
                       segs, k + 1)

\* wallsLayer.clear()
KeepWalls(layer) == layer
ClearWalls(layer) == << >>

\* the walls effect on a new segment list
BuildWalls(layer, segs) == SegmentWalls(ClearWalls(layer), segs, 1)

\* the vertex markers of updateDistanceLabels
RECURSIVE VertexMarkers(_, _, _, _)
VertexMarkers(layer, id, coords, i) ==
  IF i > Len(coords) THEN layer
  ELSE VertexMarkers(
         IF isNaN(coords[i].x) \/ isNaN(coords[i].y) THEN layer
         ELSE Append(layer, [isVertex |-> TRUE, segmentId |-> id,
                             at |-> coords[i], to |-> coords[i]]),
         id, coords, i + 1)

\* the distance labels of the edges of a polygon
RECURSIVE DistanceLabels(_, _, _, _)
DistanceLabels(layer, id, coords, i) ==
  IF i > Len(coords) THEN layer
  ELSE LET p1 == coords[i]
           p2 == coords[(i % Len(coords)) + 1]
       IN DistanceLabels(
            IF \/ isNaN(p1.x) \/ isNaN(p1.y) \/ isNaN(p2.x) \/ isNaN(p2.y)
               \/ SamePoint(p1, p2)
            THEN layer
            ELSE Append(layer, [isVertex |-> FALSE, segmentId |-> id,
                                at |-> p1, to |-> p2]),
            id, coords, i + 1)

\* updateDistanceLabels(polygon, segmentId)
PolygonLabels(layer, id, ring) ==
  LET old == SelectSeq(layer, LAMBDA g : g.segmentId # id)
      coords == PolygonShell(ring)
      marked == VertexMarkers(old, id, coords, 1)
  IN IF Len(coords) = 0 THEN old
     ELSE IF Len(coords) < 2 THEN marked
     ELSE DistanceLabels(marked, id, coords, 1)

\* labelLayer.clear() and fieldSegments.forEach of the sync effect
RECURSIVE SegmentLabels(_, _, _)
SegmentLabels(layer, segs, k) ==
  IF k > Len(segs) THEN layer
  ELSE SegmentLabels(PolygonLabels(layer, segs[k].id, segs[k].geometry),
                     segs, k + 1)

BuildLabels(segs) == SegmentLabels(<< >>, segs, 1)

---------------------------------------------------------------------------
(* Specification of the walls and the labels                               *)

PA == Coordinate(Number(0), Number(0))
PB == Coordinate(Number(1), Number(0))
PC == Coordinate(Number(1), Number(1))
PN == Coordinate(NaN, Number(0))
PF == Coordinate(Infinity, Number(1))

\* rings as stored: a triangle, a triangle with a doubled vertex, two
\* vertices, one vertex, a vertex that is NaN, a vertex at infinity
SceneRings ==
  {<< PA, PB, PC, PA >>, << PA, PB, PB, PC, PA >>, << PA, PB, PA >>,
   << PA, PA >>, << PA, PN, PC, PA >>, << PA, PF, PC, PA >>}

\* surface height and parapet height, in feet
SceneHeights == {<< 0, 0 >>, << 10, 0 >>, << 10, 3 >>, << 10, 0 - 2 >>}

SceneSegment(id, ring, h) ==
  [id |-> id, geometry |-> ring, surfaceHeight |-> h[1],
   parapetHeight |-> h[2]]

\* the segment lists: none, one or two segments
SceneLists ==
  {<< >>}
    \cup {<< SceneSegment(1, r, h) >> : r \in SceneRings, h \in SceneHeights}
    \cup {<< SceneSegment(1, r, h), SceneSegment(2, q, g) >> :
            r \in SceneRings, h \in SceneHeights,
            q \in SceneRings, g \in {<< 0, 0 >>, << 10, 3 >>}}

SceneMounted ==
  [phase |-> "mounted", segs |-> << >>, walls |-> << >>, labels |-> << >>,
   rebuilt |-> FALSE]

InitScene ==
  /\ Mounted(EmptyStore, FALSE, Unbounded, {TRUE})
  /\ lay = LayIdle /\ shadow = ShadowIdle /\ lookup = LookupIdle
  /\ scene = SceneMounted

\* setFieldSegments with another list: the walls effect and the sync effect
SetFieldSegments(segs) ==
  /\ scene.phase # "idle"
  /\ segs # scene.segs
  /\ scene' = [phase |-> "drawn", segs |-> segs,
               walls |-> BuildWalls(scene.walls, segs),
               labels |-> BuildLabels(segs),
               rebuilt |-> scene.walls # << >>]
  /\ UNCHANGED << edVars, lay, shadow, lookup >>

NextScene == \E segs \in SceneLists : SetFieldSegments(segs)

SpecScene == InitScene /\ [][NextScene]_vars

---------------------------------------------------------------------------
(* Properties of the walls                                                 *)

\* how often q is on the layer
Occurrences(layer, q) == Cardinality({ i \in DOMAIN layer : layer[i] = q })

\* the ends of edge i of the ring of a segment, the closing edge included
EdgeEnds(segment, i) ==
  LET shell == PolygonShell(segment.geometry)
  IN << shell[i], shell[(i % Len(shell)) + 1] >>

\* the edges of the list whose ends do not coincide, by segment and index
ProperEdges(segs) ==
  { e \in UNION { {<< k, i >> : i \in DOMAIN PolygonShell(segs[k].geometry)} :
                  k \in DOMAIN segs } :
      EdgeEnds(segs[e[1]], e[2])[1] # EdgeEnds(segs[e[1]], e[2])[2] }

GroundQuad(segment, i) ==
  Quad(EdgeEnds(segment, i)[1], EdgeEnds(segment, i)[2],
       meters(segment.surfaceHeight), 0)

ParapetQuad(segment, i) ==
  Quad(EdgeEnds(segment, i)[1], EdgeEnds(segment, i)[2],
       meters(segment.surfaceHeight) + meters(segment.parapetHeight),
       meters(segment.surfaceHeight))

\* C23: the walls layer holds, for every segment, exactly one quad from the
\* ground to the roof per non-degenerate edge of the ring, the closing edge
\* included, and exactly one parapet quad from z to z + paraZ per such edge
\* if and only if paraZ > 0; a degenerate edge has no quad, and the layer is
\* rebuilt in full at every change of the segment list.
C23_WallQuads ==
  scene.phase = "drawn" =>
    LET segs == scene.segs
        ground == { e \in ProperEdges(segs) : TRUE }
        parapet == { e \in ProperEdges(segs) :
                       segs[e[1]].parapetHeight > 0 }
        wanted == { GroundQuad(segs[e[1]], e[2]) : e \in ground }
                    \cup { ParapetQuad(segs[e[1]], e[2]) : e \in parapet }
    IN /\ Len(scene.walls) = Cardinality(ground) + Cardinality(parapet)
       /\ \A q \in wanted :
            Occurrences(scene.walls, q)
              = Cardinality({ e \in ground :
                                GroundQuad(segs[e[1]], e[2]) = q })
                + Cardinality({ e \in parapet :
                                  ParapetQuad(segs[e[1]], e[2]) = q })

\* the layer was rebuilt over the walls of an earlier list, for a ring with
\* a doubled vertex and a parapet
C23_Witness ==
  /\ scene.phase = "drawn" /\ scene.rebuilt
  /\ Len(scene.segs) = 1
  /\ scene.segs[1].geometry = << PA, PB, PB, PC, PA >>
  /\ scene.segs[1].parapetHeight = 3
  /\ Len(scene.walls) = 6


---------------------------------------------------------------------------
(* Properties of the shadow length                                         *)

\* h / tan(altitude), limited to 0 .. 500 m, in whole metres
ClampedLength(seg, alt) ==
  LET len == (meters(seg.feet) * Tan(alt).den) \div Tan(alt).num
  IN (IF len < 0 THEN 0 ELSE IF len > 500 * Metre THEN 500 * Metre ELSE len)
       \div Metre

\* the ring of the segment shifted by k metres
ShiftedRing(k) == k..(k + FootprintCells - 1)

\* the samples of the segment with the sun up, for a segment with a height
Lit(seg, sun) ==
  { m \in Samples(seg) :
      seg.feet > 0 /\ sun[m].ok /\ sun[m].altitude > 0 }

\* C24: at every instant with a sun altitude above 0 and a combined height
\* h above 0, the shadow length of the projection is h / tan(altitude)
\* limited to 0 .. 500 m: never negative, never above 500, and the same in
\* the draw of the sample and in what the sample gives to the aggregate.
C24_ShadowLengthClamped ==
  shadow.phase = "drawn" =>
    \A i \in DOMAIN shadow.segs :
      \A m \in Lit(shadow.segs[i], shadow.sun) :
        LET k == ClampedLength(shadow.segs[i], shadow.sun[m].altitude)
            drawn == { d.cells : d \in { e \in shadow.layer[i].draws :
                                           e.minute = m } }
            built == { shadow.layer[i].built[m][j] :
                         j \in DOMAIN shadow.layer[i].built[m] }
        IN /\ 0 <= k /\ k <= 500
           /\ ShiftedRing(k) \in drawn
           /\ ShiftedRing(k) \in built
           /\ \A cells \in drawn \cup built :
                cells \subseteq 0..(k + FootprintCells - 1)

\* a segment of 100 ft under a sun of 1 degree and of 45 degrees: a shadow
\* limited to 500 m and one of 30 m
C24_Witness ==
  /\ shadow.phase = "drawn"
  /\ shadow.segs[1].feet = 100
  /\ \E m, n \in Lit(shadow.segs[1], shadow.sun) :
       /\ shadow.sun[m].altitude = 1 /\ shadow.sun[n].altitude = 45
       /\ [minute |-> m, cells |-> ShiftedRing(500)]
            \in shadow.layer[1].draws
       /\ [minute |-> n, cells |-> ShiftedRing(30)]
            \in shadow.layer[1].draws


---------------------------------------------------------------------------
(* Specification of the module dimension cache                             *)

\* calls of ensureModuleDims in flight together
MaxCalls == 2

\* the catalog row of the module, found once the catalog is loaded
CacheRows ==
  {[present |-> TRUE, known |-> TRUE, area |-> undefined],
   [present |-> TRUE, known |-> FALSE, area |-> Number(1660000)],
   [present |-> TRUE, known |-> FALSE, area |-> undefined]}

\* the parsed details of the module in the store
CacheParsed ==
  {[length_m |-> undefined, width_m |-> undefined],
   [length_m |-> Number(2000), width_m |-> Number(992)],
   [length_m |-> Number(2000), width_m |-> NaN]}

\* one module in use by a segment; modules is the catalog state, calls the
\* modules value captured by every call in flight, first the entry cached
\* first
InitCache ==
  /\ Mounted(EmptyStore, FALSE, Unbounded, {TRUE})
  /\ lay = LayIdle /\ shadow = ShadowIdle /\ scene = SceneIdle
  /\ lookup \in [phase : {"session"},
                 row : CacheRows,
                 parsed : CacheParsed,
                 modules : {NoModule},
                 moduleDims : {NoEntry},
                 calls : {<< >>},
                 first : {NoEntry}]

\* the catalog is loaded: setModules(data)
FetchModules ==
  /\ lookup.phase = "session"
  /\ lookup.modules = NoModule
  /\ lookup' = [lookup EXCEPT !.modules = lookup.row]
  /\ UNCHANGED << edVars, lay, shadow, scene >>

\* the preload effect runs (the segment list or ensureModuleDims has
\* changed): ensureModuleDims(id) returns if this render has an entry, and
\* sends the lookup otherwise
Preload ==
  /\ lookup.phase = "session"
  /\ lookup.moduleDims = NoEntry
  /\ Len(lookup.calls) < MaxCalls
  /\ lookup' = [lookup EXCEPT !.calls = Append(@, lookup.modules)]
  /\ UNCHANGED << edVars, lay, shadow, scene >>

\* the lookup of call i is answered, with or without an error: the entry is
\* written over whatever the cache holds
LookupAnswer(i, error) ==
  /\ lookup.phase = "session"
  /\ i \in DOMAIN lookup.calls
  /\ LET entry == EnsureModuleDims(NoEntry, error, lookup.parsed,
                                   lookup.calls[i])
     IN lookup' = [lookup EXCEPT
                     !.calls = RemoveAt(@, i),
                     !.moduleDims = entry,
                     !.first = IF @ = NoEntry THEN entry ELSE @]
  /\ UNCHANGED << edVars, lay, shadow, scene >>

NextCache ==
  \/ FetchModules
  \/ Preload
  \/ \E i \in 1..MaxCalls, error \in BOOLEAN : LookupAnswer(i, error)

SpecCache == InitCache /\ [][NextCache]_vars

---------------------------------------------------------------------------
(* Properties of the module dimension cache                                *)

\* C25: the cache of module dimensions is never invalidated: once it holds
\* an entry for a module, the width and height of the entry never change,
\* for every interleaving of concurrent ensureModuleDims calls with the
\* loading of the catalog.
C25_CacheEntryStable ==
  [][lookup.moduleDims # NoEntry => lookup'.moduleDims = lookup.moduleDims]_vars

\* the entry of the module is not the one cached first
C25_Witness ==
  /\ lookup.phase = "session"
  /\ lookup.first # NoEntry
  /\ lookup.moduleDims # lookup.first


---------------------------------------------------------------------------
(* Properties of non-finite vertices                                       *)

\* both coordinates are finite numbers
FinitePoint(p) == p.x.t = "number" /\ p.y.t = "number"

Marker(id, p) == [isVertex |-> TRUE, segmentId |-> id, at |-> p, to |-> p]
EdgeLabel(id, a, b) ==
  [isVertex |-> FALSE, segmentId |-> id, at |-> a, to |-> b]

OnLayer(layer, g) == \E i \in DOMAIN layer : layer[i] = g

\* C26: a vertex with a coordinate that is NaN or infinite makes the editor
\* skip the marker of that vertex and the labels and walls of the edges at
\* that vertex, and nothing else: every other vertex and edge of the
\* segment, and every other segment, has its marker, label and wall.
C26_OnlyNonFiniteSkipped ==
  scene.phase = "drawn" =>
    \A k \in DOMAIN scene.segs :
      LET segment == scene.segs[k]
          shell == PolygonShell(segment.geometry)
      IN /\ \A i \in DOMAIN shell :
              OnLayer(scene.labels, Marker(segment.id, shell[i]))
                <=> FinitePoint(shell[i])
         /\ \A e \in { d \in ProperEdges(scene.segs) : d[1] = k } :
              LET a == EdgeEnds(segment, e[2])[1]
                  b == EdgeEnds(segment, e[2])[2]
              IN /\ OnLayer(scene.labels, EdgeLabel(segment.id, a, b))
                      <=> FinitePoint(a) /\ FinitePoint(b)
                 /\ OnLayer(scene.walls, GroundQuad(segment, e[2]))
                      <=> FinitePoint(a) /\ FinitePoint(b)

\* a ring with a vertex that is NaN: the walls of the two edges at the
\* vertex are on the walls layer
C26_Witness ==
  /\ scene.phase = "drawn"
  /\ Len(scene.segs) = 1
  /\ scene.segs[1].geometry = << PA, PN, PC, PA >>
  /\ OnLayer(scene.walls, Quad(PA, PN, meters(scene.segs[1].surfaceHeight), 0))
  /\ OnLayer(scene.walls, Quad(PN, PC, meters(scene.segs[1].surfaceHeight), 0))
  /\ ~OnLayer(scene.labels, Marker(1, PN))


---------------------------------------------------------------------------
(* Specification of the tiling loops                                       *)

\* iterations of the loops counted in one layout
MaxIterations == 200

\* marginX when stepX may be 0: x % 0 is NaN
StartMargin(align, leftoverX, stepX) ==
  IF stepX = 0 /\ align \in {"center", "right", "justify"} THEN NaN
  ELSE Number(MarginX(align, leftoverX, stepX))

\* the region of the tiled segments and its extent
TilingRegion == inset([geometry |-> FieldRing, setback |-> 0])
TilingExtent == Extent(TilingRegion)

\* the frame the loops are run with
LoopFrame == lay.frame

\* startEast = marginX + frameW / 2
StartEast(seg, f) ==
  LET leftoverX == IF TilingExtent.widthM > f.frameW
                   THEN TilingExtent.widthM - f.frameW ELSE 0
      marginX == StartMargin(seg.alignment, leftoverX, f.stepX)
  IN IF isNaN(marginX) THEN NaN ELSE Number(marginX.v + f.frameW \div 2)

\* off <= span - half + 1e-6
LoopTest(off, span, half) ==
  ~isNaN(off) /\ 8 * off.v <= 8 * (span - half) + 1

TilingSegments ==
  [geometry : {FieldRing}, setback : {0}, module : {1},
   defaultOrientation : {"Landscape"}, moduleSpacing : {1},
   frameSpacing : 0..1, rowSpacing : 0..1,
   frameSizeWide : 1..2, frameSizeUp : 1..2,
   alignment : {"left", "center", "right", "justify"}]

\* module sizes, zero included
TilingDims ==
  [width : {0, (11 * Metre) \div 10}, height : {0, (17 * Metre) \div 10}]

\* before the loops: yOff = startNorth
InitTiling ==
  /\ Mounted(EmptyStore, FALSE, Unbounded, {TRUE})
  /\ shadow = ShadowIdle /\ lookup = LookupIdle /\ scene = SceneIdle
  /\ \E seg \in TilingSegments, dims \in TilingDims :
       LET f == Frame(seg, dims)
       IN lay = [phase |-> "rows", seg |-> seg, frame |-> f,
                 startEast |-> StartEast(seg, f),
                 yOff |-> Number(f.frameH \div 2),
                 xOff |-> Number(0), frames |-> 0]

\* the test of the outer loop: enter the row, or leave the loops
RowTest ==
  /\ lay.phase = "rows"
  /\ lay' = IF LoopTest(lay.yOff, TilingExtent.heightM, LoopFrame.frameH \div 2)
            THEN [lay EXCEPT !.phase = "columns", !.xOff = lay.startEast]
            ELSE [lay EXCEPT !.phase = "done"]
  /\ UNCHANGED << edVars, shadow, lookup, scene >>

\* one iteration of the inner loop: the modules of a frame, xOff += stepX
FrameStep ==
  /\ lay.phase = "columns"
  /\ LoopTest(lay.xOff, TilingExtent.widthM, LoopFrame.frameW \div 2)
  /\ lay' = [lay EXCEPT !.xOff = Number(@.v + LoopFrame.stepX),
                        !.frames = Min({@ + 1, MaxIterations})]
  /\ UNCHANGED << edVars, shadow, lookup, scene >>

\* the inner loop ends: yOff += stepY
RowStep ==
  /\ lay.phase = "columns"
  /\ ~LoopTest(lay.xOff, TilingExtent.widthM, LoopFrame.frameW \div 2)
  /\ lay' = [lay EXCEPT !.phase = "rows",
                        !.yOff = Number(@.v + LoopFrame.stepY),
                        !.frames = Min({@ + 1, MaxIterations})]
  /\ UNCHANGED << edVars, shadow, lookup, scene >>

NextTiling == RowTest \/ FrameStep \/ RowStep

SpecTiling == InitTiling /\ [][NextTiling]_vars

\* the loops run on: every step that can be taken is taken
SpecTilingLive == SpecTiling /\ WF_vars(NextTiling)

---------------------------------------------------------------------------
(* Properties of the tiling loops                                          *)

\* C27: the layout of a segment terminates: for all module widths and
\* heights that are not negative, all spacings that are not negative, all
\* frame sizes of at least 1 and every alignment, both tiling loops end
\* after finitely many steps.
C27_TilingTerminates == <>(lay.phase = "done")

\* the inner loop has run MaxIterations times without its offset moving
C27_Witness ==
  /\ lay.phase = "columns"
  /\ lay.frames = MaxIterations
  /\ LoopFrame.stepX = 0
  /\ lay.xOff = lay.startEast


---------------------------------------------------------------------------
(* Properties of the selection                                             *)

\* C28: in every reachable state selectedSegmentId is null or the id of a
\* segment of the local list, in any interleaving of the creation, the
\* selection and the deletion of segments and of the rollback of a delete
\* that failed.
C28_SelectionInList ==
  selectedSegmentId = 0 \/ selectedSegmentId \in Ids(fieldSegments)

\* a failed delete has put its copy of the list back while a segment that
\* is in the store but not in that copy is selected
C28_Witness ==
  /\ ev.type = "deleteFailed"
  /\ selectedSegmentId # 0
  /\ selectedSegmentId \notin Ids(fieldSegments)
  /\ selectedSegmentId \in DOMAIN store


---------------------------------------------------------------------------
(* Properties of the saving status                                         *)

\* the attributes the auto-save writes
Attributes(row) == [sh |-> row.sh, st |-> row.st, module |-> row.module]

\* the debounce timer of the segment is pending
TimerPending(id) == timer # NoTimer /\ timer.seg.id = id

\* the store holds the attributes the list has for the segment
StoreHolds(seg) ==
  seg.id \in DOMAIN store /\ Attributes(store[seg.id]) = Attributes(seg)

\* the selected segment has edits the store has not acknowledged
Unacknowledged ==
  /\ SelSeg(St) # NoSeg
  /\ \/ TimerPending(selectedSegmentId)
     \/ \E i \in InFlight(selectedSegmentId) : updates[i].kind = "attrs"

\* C29: the saving status agrees with the state of the store: whenever the
\* selected segment has attribute edits that the store has not acknowledged
\* (the debounce timer is pending or an update is in flight) savingStatus is
\* 'saving', and it is 'saved' or 'idle' only when the store holds the latest
\* attribute values of that segment.
C29_StatusAgreesWithStore ==
  /\ Unacknowledged => savingStatus = "saving"
  /\ SelSeg(St) # NoSeg /\ savingStatus \in {"saved", "idle"}
       => StoreHolds(SelSeg(St))

\* 'saved' is shown for an earlier update while the timer of a later edit,
\* which the store does not hold, is pending
C29_Witness ==
  /\ SelSeg(St) # NoSeg
  /\ savingStatus = "saved"
  /\ ev.type = "updated"
  /\ TimerPending(selectedSegmentId)
  /\ ~StoreHolds(SelSeg(St))


---------------------------------------------------------------------------
(* Properties of the labels of a drawing                                   *)

\* the tags on the label layer that are temporary ids of drawings
TempLabels == { x \in labelLayer : x < 0 }

\* C30: every distance label and vertex marker of the label layer belongs to
\* a segment of the local list or to the draw in progress: after a draw has
\* ended, whether the create call succeeded or failed, no label or marker
\* tagged with the temporary id of the finished drawing remains.
C30_LabelsOfListOrDrawing ==
  \A x \in labelLayer : x \in Ids(fieldSegments) \/ (x # 0 /\ x = drawingId)

\* the create call of a finished drawing has failed and the labels of the
\* drawing are still on the layer
C30_Witness ==
  /\ ev.type = "createFailed"
  /\ creates = << >>
  /\ drawingId = 0
  /\ TempLabels # {}

====
